---- MODULE Spec2Model ----
(***************************************************************************)
(* Sales_ottenok: a model of the conversation concurrency controller       *)
(* (greenapi/webhook.py), the order-context state machine                  *)
(* (ai/order_manager.py, ai/engine.py, db/conversations.py) and the        *)
(* missing-field dialogue policy.                                          *)
(*                                                                         *)
(* Russian words of the source are written in Latin transliteration        *)
(* ("oform" for the stem of "оформляем", "zakaz" for "заказ"), letter for  *)
(* letter where a length or a prefix matters.                              *)
(***************************************************************************)
EXTENDS Integers, Sequences, FiniteSets, TLC

VARIABLES
    \* ---- greenapi/webhook.py: module-level state ----
    aggregation,      \* MESSAGE_AGGREGATION_DELAY > 0
    message_buffers,  \* _message_buffers: chat -> buffered texts (<<>> = no key)
    buffer_sender,    \* _buffer_sender: chat -> sender of the first buffered message
    buffer_timers,    \* _buffer_timers: chat -> id of the registered timer task (0 = no key)
    timers,           \* live _flush_after_delay tasks still in asyncio.sleep
    chat_locks,       \* _chat_locks: chats whose lock has been created
    locked,           \* chat -> the asyncio.Lock is held
    waiters,          \* chat -> handler calls queued on the lock (FIFO)
    active,           \* chat -> number of handler executions in progress
    calls,            \* chat -> handler calls requested so far, in order
    arrivals,         \* chat -> buffered messages so far, with the gap before each
    sinceLast,        \* chat -> time since the last buffered message (capped)
    nmsgs,            \* messages delivered so far
    outcomes,         \* chat -> handler executions finished, alerts requested, apologies sent
    \* ---- ai/order_manager.py: the pure order-context functions ----
    m_base,           \* the stored context given to the merge
    m_color_required, \* the colour-required flag given to _build_missing_fields
    m_updates,        \* the update given to the merge
    m_merged,         \* what _merge_order_context returned
    m_of,             \* the context _build_missing_fields was applied to
    m_missing,        \* what _build_missing_fields returned
    m_phase,          \* "input" | "merged" | "listed"
    \* ---- db/conversations.py: the client_order_context row of one chat ----
    db_ctx,           \* city, product, product_type, size, color, address
    db_pending,       \* order_pending_confirm
    \* ---- ai/engine.py: what the last generate_response call did; its message,
    \* ---- its update, its merge result and its checks are gone once it returned ----
    t_path,           \* "none" | "confirmed" | "preorder" | "summary" | "answer" | "error"
    t_msg,            \* user_message ("" when no call is being looked at)
    t_failed,         \* _extract_order_fields took its except branch
    t_update,         \* extracted_fields as handed to _merge_order_context
    t_merged,         \* order_ctx as persisted right after the merge
    t_missing,        \* missing_order_fields (<<>> when the turn returned before computing it)
    t_order_type,     \* order_ctx["order_type"] in the returned order context ("" = no key)
    t_stock,          \* how the stock check of the turn went ("not_reached" if it did not run)
    t_reply,          \* the kind of text returned
    pending_product,  \* the product of the order when the flag was last set
    scenario,         \* how many of product, city, size, address the last turns supplied in order
    \* ---- ai/engine.py: the text of one reply, from the completion to the return ----
    r_phase,          \* "idle" | "returned"
    r_in,             \* what the turn knows when the completion returns
    r_missing,        \* missing_order_fields
    r_reply,          \* the text generate_response returns
    \* ---- ai/engine.py: the photos of one turn that reaches the photo search ----
    p_phase,          \* "idle" | "returned"
    p_in,             \* the stored context, the turn's inputs and the photo index
    p_answering,      \* is_answering_missing_field
    p_ctx,            \* the order context the turn returns
    p_photos,         \* the products whose photos the turn returns
    \* ---- gdrive/photo_mapper.py, ai/engine.py: one call of a photo-selection function ----
    f_fn,             \* "none" | "_tokenize" | "select_photos_with_color_variety" | "_pick_product_photos"
    f_in,             \* the argument of the call
    f_out,            \* what the call returned
    \* ---- db/conversations.py: the clients and handoff_state rows of one chat, as the
    \* ---- nudge scheduler sees them ----
    n_handoff,        \* handoff_state.enabled
    n_count,          \* clients.nudge_count
    n_last_client,    \* clients.last_client_message_at
    n_last_bot,       \* clients.last_bot_message_at
    n_clock,          \* CURRENT_TIMESTAMP of the last statement
    n_since,          \* nudges sent since the client's last message
    n_last,           \* what the last scheduler pass did: "none" | "sent" | "skipped"
    \* ---- ai/engine.py: handle_message of one client chat and its handoff state ----
    h_enabled,        \* handoff_state.enabled of the chat
    h_pc,             \* where the call in progress is: "idle" | "generating" | "sending"
    h_left,           \* what the call in progress still has to send
    h_out,            \* what has happened for the last message handled
    h_handled         \* messages handled so far

aggVars == <<aggregation, message_buffers, buffer_sender, buffer_timers, timers,
             chat_locks, locked, waiters, active, calls, arrivals, sinceLast, nmsgs,
             outcomes>>

mergeVars == <<m_base, m_color_required, m_updates, m_merged, m_of, m_missing, m_phase>>

turnVars == <<db_ctx, db_pending, t_path, t_msg, t_failed, t_update, t_merged, t_missing,
              t_order_type, t_stock, t_reply, pending_product, scenario>>

replyVars == <<r_phase, r_in, r_missing, r_reply>>

photoVars == <<p_phase, p_in, p_answering, p_ctx, p_photos>>

mapVars == <<f_fn, f_in, f_out>>

nudgeVars == <<n_handoff, n_count, n_last_client, n_last_bot, n_clock, n_since, n_last>>

handoffVars == <<h_enabled, h_pc, h_left, h_out, h_handled>>

extraVars == <<mapVars, nudgeVars, handoffVars>>

vars == <<aggVars, mergeVars, turnVars, replyVars, photoVars, extraVars>>

----------------------------------------------------------------------------
(* Bounds of the model *)

MaxMsgs == 3      \* messages delivered in one behaviour
Delay == 2        \* the aggregation delay, in clock ticks
MaxLiveMsgs == 2  \* messages delivered in one behaviour of the fair controller
MaxClock == 4     \* seconds on the clock of the nudge scheduler
MaxParts == 2     \* parts of the text of one reply
MaxHandled == 3   \* messages of the client handled in one behaviour

----------------------------------------------------------------------------
(* Text helpers *)

Min(a, b) == IF a < b THEN a ELSE b
Max(a, b) == IF a < b THEN b ELSE a

StartsWith(s, p) == Len(s) >= Len(p) /\ SubSeq(s, 1, Len(p)) = p

Contains(s, p) == \E i \in 1..(Len(s) - Len(p) + 1) : SubSeq(s, i, i + Len(p) - 1) = p

RECURSIVE LStrip(_)
LStrip(s) == IF Len(s) > 0 /\ SubSeq(s, 1, 1) = " " THEN LStrip(SubSeq(s, 2, Len(s))) ELSE s

RECURSIVE RStrip(_)
RStrip(s) ==
    IF Len(s) > 0 /\ SubSeq(s, Len(s), Len(s)) = " " THEN RStrip(SubSeq(s, 1, Len(s) - 1)) ELSE s

\* str.strip()
Strip(s) == RStrip(LStrip(s))

UpperLetters == <<"A", "B", "C", "D", "E", "F", "G", "H", "I", "J", "K", "L", "M",
                  "N", "O", "P", "Q", "R", "S", "T", "U", "V", "W", "X", "Y", "Z">>
LowerLetters == <<"a", "b", "c", "d", "e", "f", "g", "h", "i", "j", "k", "l", "m",
                  "n", "o", "p", "q", "r", "s", "t", "u", "v", "w", "x", "y", "z">>

\* upper-case letter -> lower-case letter
LowerOfUpper == [ch \in {UpperLetters[i] : i \in 1..Len(UpperLetters)} |->
                    LowerLetters[CHOOSE i \in 1..Len(UpperLetters) : UpperLetters[i] = ch]]

LowerChar(ch) == IF ch \in DOMAIN LowerOfUpper THEN LowerOfUpper[ch] ELSE ch

RECURSIVE Lower(_)
\* str.lower()
Lower(s) ==
    IF Len(s) = 0 THEN s
    ELSE IF Len(s) = 1 THEN LowerChar(s)
    ELSE Lower(SubSeq(s, 1, Len(s) \div 2)) \o Lower(SubSeq(s, Len(s) \div 2 + 1, Len(s)))

RECURSIVE JoinNL(_)
\* "\n".join(messages)
JoinNL(msgs) ==
    IF Len(msgs) = 0 THEN ""
    ELSE IF Len(msgs) = 1 THEN msgs[1]
    ELSE msgs[1] \o "\n" \o JoinNL(Tail(msgs))

----------------------------------------------------------------------------
(* gdrive/photo_mapper.py: the tokenizer *)

Digits == {"0", "1", "2", "3", "4", "5", "6", "7", "8", "9"}
AlnumChars == Digits \cup {LowerLetters[i] : i \in 1..Len(LowerLetters)}

RECURSIVE FindWords(_, _)
\* re.findall(r'[a-zA-Z...0-9]+', text): the maximal runs of letters and digits
FindWords(s, cur) ==
    IF Len(s) = 0 THEN (IF cur = "" THEN {} ELSE {cur})
    ELSE LET ch == SubSeq(s, 1, 1)
             rest == SubSeq(s, 2, Len(s))
         IN IF ch \in AlnumChars
            THEN FindWords(rest, cur \o ch)
            ELSE (IF cur = "" THEN {} ELSE {cur}) \cup FindWords(rest, "")

\* str.isdigit()
IsDigit(w) == Len(w) > 0 /\ \A i \in 1..Len(w) : SubSeq(w, i, i) \in Digits

\* _STOP_WORDS (the entries the model's texts can contain)
STOP_WORDS == {"pokazhi", "hochu", "mne", "est", "kakie", "foto", "chto", "kak", "dlya",
               "ili", "eto", "vse", "jpg", "png"}

\* _BRAND_MAP (the entries the model's texts can contain): word -> canonical tokens
BRAND_MAP ==
    [w \in {"shanel", "iv", "dzhimmi", "chu", "dzhimmichu", "dzhambo", "aziya", "sumki",
            "tufel"} |->
        CASE w = "shanel" -> {"chanel"}
          [] w = "iv" -> {"yves"}
          [] w = "dzhimmi" -> {"jimmy"}
          [] w = "chu" -> {"choo"}
          [] w = "dzhimmichu" -> {"jimmy", "choo"}
          [] w = "dzhambo" -> {"jumbo"}
          [] w = "aziya" -> {"azia"}
          [] w = "sumki" -> {"sumka"}
          [] w = "tufel" -> {"tufli"}]

WordTokensOfStopWords(w) ==
    IF w \in DOMAIN BRAND_MAP THEN BRAND_MAP[w] \cup {w}
    ELSE IF IsDigit(w) /\ Len(w) >= 2 THEN {w}
    ELSE IF Len(w) > 2 THEN {w}
    ELSE {}

\* the tokens one word contributes
WordTokens(w) ==
    IF w \in STOP_WORDS THEN {}
    ELSE IF w \in DOMAIN BRAND_MAP THEN BRAND_MAP[w] \cup {w}
    ELSE IF IsDigit(w) /\ Len(w) >= 2 THEN {w}
    ELSE IF Len(w) > 2 THEN {w}
    ELSE {}

_tokenize(text) == UNION {WordTokens(w) : w \in FindWords(Lower(text), "")}

tokenize_text(text) == _tokenize(text)

----------------------------------------------------------------------------
(* ai/order_manager.py: the order context *)

SIZE_REQUIRED_TYPES == {"shoes"}

Fields == <<"city", "product", "size", "color", "address">>

EmptyCtx == [city |-> "", product |-> "", product_type |-> "", size |-> "", color |-> "",
             address |-> ""]

_normalize_product_type(value) ==
    LET v == Lower(Strip(value))
    IN IF v \in {"shoes", "obuv", "shoe"} THEN "shoes"
       ELSE IF v \in {"bag", "bags", "sumka", "sumki"} THEN "bag"
       ELSE IF v \in {"accessory", "accessories", "aksessuar", "aksessuary"} THEN "accessory"
       ELSE IF v \in {"other", "drugoe"} THEN "other"
       ELSE ""

\* ":heel:", ":sneaker:" and ":bag:" stand for the three emoji of the source
_infer_product_type_from_text(text) ==
    LET t == Lower(text)
    IN IF Contains(text, ":heel:") \/ Contains(text, ":sneaker:") THEN "shoes"
       ELSE IF Contains(text, ":bag:") THEN "bag"
       ELSE IF \E x \in {"tuf", "kros", "botin", "lofer", "baletk", "obuv", "kabluk", "lodoch",
                         "slingback", "dzhimmi chu", "jimmy choo", "saeda", "azia", "opyum",
                         "opium", "sneaker", "ked"} : Contains(t, x) THEN "shoes"
       ELSE IF \E x \in {"sumk", "bag", "chanel 25", "arcadie", "pochette", "flap",
                         "koshelek", "wallet", "monogram", "jumbo"} : Contains(t, x) THEN "bag"
       ELSE ""

_sanitize_order_context(ctx) ==
    [city |-> Strip(ctx.city),
     product |-> Strip(ctx.product),
     product_type |-> _normalize_product_type(ctx.product_type),
     size |-> Strip(ctx.size),
     color |-> Strip(ctx.color),
     address |-> Strip(ctx.address)]

\* the product-switch test of _merge_order_context: similarity < 0.5
IsProductSwitchAtHalf(old, new) ==
    LET old_tokens == tokenize_text(old)
        new_tokens == tokenize_text(new)
    IN /\ old_tokens # {} /\ new_tokens # {}
       /\ 2 * Cardinality(old_tokens \cap new_tokens)
             <= Max(Cardinality(old_tokens), Cardinality(new_tokens))
IsProductSwitch(old, new) ==
    LET old_tokens == tokenize_text(old)
        new_tokens == tokenize_text(new)
    IN /\ old_tokens # {} /\ new_tokens # {}
       /\ 2 * Cardinality(old_tokens \cap new_tokens)
             < Max(Cardinality(old_tokens), Cardinality(new_tokens))

\* lines 102-103: an empty product type is inferred from the product name
InferTypeNever(merged) == merged
InferTypeIfEmpty(merged) ==
    IF merged.product_type = ""
    THEN [merged EXCEPT !.product_type = _infer_product_type_from_text(merged.product)]
    ELSE merged

\* lines 97-101: every non-empty incoming field replaces the stored one
TakeIncomingAlways(merged, incoming) == incoming
TakeIncoming(merged, incoming) ==
    [city |-> IF incoming.city # "" THEN incoming.city ELSE merged.city,
     product |-> IF incoming.product # "" THEN incoming.product ELSE merged.product,
     product_type |-> IF incoming.product_type # "" THEN incoming.product_type
                      ELSE merged.product_type,
     size |-> IF incoming.size # "" THEN incoming.size ELSE merged.size,
     color |-> IF incoming.color # "" THEN incoming.color ELSE merged.color,
     address |-> IF incoming.address # "" THEN incoming.address ELSE merged.address]

\* lines 86-95: a product switch resets the dependent fields
ResetOnSwitch(merged, incoming) ==
    IF /\ incoming.product # "" /\ merged.product # ""
       /\ IsProductSwitch(merged.product, incoming.product)
    THEN [merged EXCEPT !.size = "", !.color = "", !.address = ""]
    ELSE merged

MergeSanitized(merged, incoming) ==
    InferTypeIfEmpty(TakeIncoming(ResetOnSwitch(merged, incoming), incoming))

_merge_order_context(base, updates) ==
    MergeSanitized(_sanitize_order_context(base), _sanitize_order_context(updates))

\* the test that guards the address entry of _build_missing_fields
basic_fields_collected(order_ctx, color_required) ==
    /\ order_ctx.city # ""
    /\ order_ctx.product # ""
    /\ (order_ctx.product_type \notin SIZE_REQUIRED_TYPES \/ order_ctx.size # "")
    /\ (~color_required \/ order_ctx.color # "")

_build_missing_fields_eager(order_ctx, color_required) ==
    (IF order_ctx.city = "" THEN <<"city">> ELSE <<>>)
    \o (IF order_ctx.product = "" THEN <<"product">> ELSE <<>>)
    \o (IF order_ctx.product_type \in SIZE_REQUIRED_TYPES /\ order_ctx.size = ""
        THEN <<"size">> ELSE <<>>)
    \o (IF color_required /\ order_ctx.color = "" THEN <<"color">> ELSE <<>>)
    \o (IF order_ctx.address = "" THEN <<"address">> ELSE <<>>)
_build_missing_fields(order_ctx, color_required) ==
    (IF order_ctx.city = "" THEN <<"city">> ELSE <<>>)
    \o (IF order_ctx.product = "" THEN <<"product">> ELSE <<>>)
    \o (IF order_ctx.product_type \in SIZE_REQUIRED_TYPES /\ order_ctx.size = ""
        THEN <<"size">> ELSE <<>>)
    \o (IF color_required /\ order_ctx.color = "" THEN <<"color">> ELSE <<>>)
    \o (IF basic_fields_collected(order_ctx, color_required) /\ order_ctx.address = ""
        THEN <<"address">> ELSE <<>>)

----------------------------------------------------------------------------
(* The pure functions applied to bounded inputs *)

ProductNames == {"", "Jimmy Choo Azia 95", "Jimmy Choo Saeda 100", "Azia",
                 "Chanel Jumbo", "LV"}

BaseCtxs ==
    [city : {"", " Almaty "}, product : ProductNames, product_type : {"", "shoes", "unknown"},
     size : {"", "38"}, color : {"", "chernye"}, address : {"", "Abaya 1"}]

UpdateCtxs ==
    [city : {"", "Astana"}, product : ProductNames, product_type : {"", "Bags"},
     size : {"", "39"}, color : {"", "bezh"}, address : {"", "Satpaeva 5"}]

MergeIdle ==
    /\ m_base = EmptyCtx
    /\ m_color_required = FALSE
    /\ m_updates = EmptyCtx
    /\ m_merged = EmptyCtx
    /\ m_of = EmptyCtx
    /\ m_missing = <<>>
    /\ m_phase = "idle"

MergeInit ==
    /\ m_base \in BaseCtxs
    /\ m_color_required \in BOOLEAN
    /\ m_updates = EmptyCtx
    /\ m_merged = EmptyCtx
    /\ m_of = EmptyCtx
    /\ m_missing = <<>>
    /\ m_phase = "input"

\* _build_missing_fields on the stored context as it is
ListStored ==
    /\ m_phase = "input"
    /\ m_of' = m_base
    /\ m_missing' = _build_missing_fields(m_base, m_color_required)
    /\ m_phase' = "listed"
    /\ UNCHANGED <<m_base, m_color_required, m_updates, m_merged, aggVars, turnVars, replyVars, photoVars, extraVars>>

\* _merge_order_context(base, updates)
Merge(u) ==
    /\ m_phase = "input"
    /\ m_updates' = u
    /\ m_merged' = _merge_order_context(m_base, u)
    /\ m_phase' = "merged"
    /\ UNCHANGED <<m_base, m_color_required, m_of, m_missing, aggVars, turnVars, replyVars, photoVars, extraVars>>

\* _build_missing_fields on the merged context
ListMerged ==
    /\ m_phase = "merged"
    /\ m_of' = m_merged
    /\ m_missing' = _build_missing_fields(m_merged, m_color_required)
    /\ m_phase' = "listed"
    /\ UNCHANGED <<m_base, m_color_required, m_updates, m_merged, aggVars, turnVars, replyVars, photoVars, extraVars>>

----------------------------------------------------------------------------
(* ai/engine.py, ai/order_manager.py: what a turn reads in the client's message *)

Letters == {LowerLetters[i] : i \in 1..Len(LowerLetters)}

RECURSIVE FindLetterWords(_, _)
\* re.findall(r'[a-zA-Z...]+', text): the maximal runs of letters
FindLetterWords(s, cur) ==
    IF Len(s) = 0 THEN (IF cur = "" THEN {} ELSE {cur})
    ELSE LET ch == SubSeq(s, 1, 1)
             rest == SubSeq(s, 2, Len(s))
         IN IF ch \in Letters
            THEN FindLetterWords(rest, cur \o ch)
            ELSE (IF cur = "" THEN {} ELSE {cur}) \cup FindLetterWords(rest, "")

RECURSIVE SplitWords(_, _)
\* str.split() of a text whose punctuation re.sub(r'[^\w\s]', '', t) has removed
SplitWords(s, cur) ==
    IF Len(s) = 0 THEN (IF cur = "" THEN <<>> ELSE <<cur>>)
    ELSE LET ch == SubSeq(s, 1, 1)
             rest == SubSeq(s, 2, Len(s))
         IN IF ch = " " \/ ch = "\n"
            THEN (IF cur = "" THEN <<>> ELSE <<cur>>) \o SplitWords(rest, "")
            ELSE IF ch \in AlnumChars \/ ch = "_"
                 THEN SplitWords(rest, cur \o ch)
                 ELSE SplitWords(rest, cur)

RECURSIVE RStripChars(_, _)
RStripChars(s, chars) ==
    IF Len(s) > 0 /\ SubSeq(s, Len(s), Len(s)) \in chars
    THEN RStripChars(SubSeq(s, 1, Len(s) - 1), chars)
    ELSE s

\* re.sub(r'[!.,?]+$', '', t).strip()
StripTrailingPunct(t) == Strip(RStripChars(t, {"!", ".", ",", "?"}))

_ORDER_CONFIRMATION_PATTERNS ==
    {"da", "verno", "vse verno", "pravilno", "vse pravilno", "podtverzhdayu", "oformlyayte",
     "oformlyay", "ok", "yes", "ugu", "aga", "tochno", "da, verno", "da, vse verno",
     "da, oformlyayte", "da oformlyayte", "da, pravilno"}

_is_order_confirmation(text) ==
    LET t == Lower(Strip(text))
    IN t # "" /\ StripTrailingPunct(t) \in _ORDER_CONFIRMATION_PATTERNS

_NEGATIVE_PATTERNS ==
    {"net", "ne nuzhno", "ne nado", "ne hochu", "spasibo net", "podumayu", "posmotrim",
     "mozhet pozzhe", "poka net", "ne seychas", "peredumal", "peredumala", "vozderzhus", "poka"}

_NEGATIVE_SUBSTRINGS == {"podumayu", "posmotrim", "pozzhe", "potom", "kogda-nibud", "poka net"}

_is_negative_or_undecided(text) ==
    LET t == StripTrailingPunct(Lower(Strip(text)))
    IN t \in _NEGATIVE_PATTERNS \/ \E p \in _NEGATIVE_SUBSTRINGS : Contains(t, p)

_ORDER_INTENT_PATTERNS ==
    {"oform", "zakaz", "beru", "vozmu", "pokup", "kuplyu", "zafiks", "adres dostavki", "davay"}

_has_order_intent(text) == \E p \in _ORDER_INTENT_PATTERNS : Contains(Lower(text), p)

_CATEGORY_WORDS ==
    {"sumka", "sumki", "sumku", "sumok", "sumochka", "sumochku", "krossovki", "krossovok",
     "krossovku", "tufli", "tufel", "tufley", "tuflyah", "baletki", "baletok", "baletku",
     "obuv", "obuvi"}

_PRODUCT_HINT_TOKENS ==
    {"chanel", "shanel", "miu", "miu miu", "dzhimmi", "jimmy", "choo", "gucci", "dior",
     "saint", "laurent", "golden", "goose", "jimbo", "dzhumbo", "classic", "flap", "arcadie",
     "azia", "saeda", "opyum", "25", "yves"}

_is_category_browsing(user_message) ==
    LET words == FindLetterWords(Lower(user_message), "")
    IN /\ \E w \in words : w \in _CATEGORY_WORDS
       /\ ~ \E w \in words : w \in _PRODUCT_HINT_TOKENS

_detect_browsing_category(user_message) ==
    LET text_l == Lower(user_message)
    IN IF Contains(text_l, "sumk") \/ Contains(text_l, "sumoch") THEN "bag"
       ELSE IF Contains(text_l, "krossovk") THEN "shoes"
       ELSE IF Contains(text_l, "tufl") THEN "shoes"
       ELSE IF Contains(text_l, "baletk") THEN "shoes"
       ELSE IF Contains(text_l, "obuv") THEN "shoes"
       ELSE ""

_is_vague_followup(text) ==
    LET words == SplitWords(Lower(Strip(text)), "")
    IN /\ Len(words) > 0 /\ Len(words) <= 4
       /\ \A i \in 1..Len(words) :
            words[i] \in {"kakie", "kakoe", "kakuyu", "kakoy", "kakih", "pokazhi", "pokazhite",
                          "davay", "davayte", "nu", "a", "hochu", "interesno", "est", "chto",
                          "esche", "mozhno", "da"}

\* _COLOR_PREFIXES in insertion order: prefix, colour key
_COLOR_PREFIXES ==
    << <<"rozov", "rozovye">>, <<"pink", "rozovye">>, <<"chern", "chernye">>,
       <<"black", "chernye">>, <<"bezh", "bezhevye">>, <<"beige", "bezhevye">>,
       <<"bel", "belye">>, <<"white", "belye">>, <<"krasn", "krasnye">>, <<"red", "krasnye">>,
       <<"siniy", "sinie">>, <<"sinih", "sinie">>, <<"sinie", "sinie">>,
       <<"zolot", "zolotye">>, <<"gold", "zolotye">>, <<"serebr", "serebryanye">>,
       <<"silver", "serebryanye">>, <<"korichnev", "korichnevye">>,
       <<"brown", "korichnevye">>, <<"zelen", "zelenye">>, <<"green", "zelenye">> >>

\* the colour named in the text, "" for None
_detect_color_in_text(text) ==
    LET t == Lower(text)
        hits == {i \in 1..Len(_COLOR_PREFIXES) : Contains(t, _COLOR_PREFIXES[i][1])}
    IN IF hits = {} THEN ""
       ELSE _COLOR_PREFIXES[CHOOSE i \in hits : \A j \in hits : i <= j][2]

_PHOTO_REQUEST_PATTERNS ==
    {"foto", "fotku", "fotki", "fotografiyu", "snimok", "pokazhi", "pokazhite", "pokazhesh",
     "pokazat", "posmotret", "skin", "skinte", "prishli", "prishlite", "kin", "kinte",
     "otprav", "otpravte"}

_is_photo_request(text) ==
    LET t == Lower(text)
    IN \/ \E p \in _PHOTO_REQUEST_PATTERNS : Contains(t, p)
       \/ Contains(t, "kak on vyglyad")
       \/ Contains(t, "kak vyglyadit")

_AVAILABILITY_HINTS == {"est", "imeetsya", "v nalichii", "byvaet", "byli", "budet"}

_is_availability_request(text) == \E h \in _AVAILABILITY_HINTS : Contains(Lower(text), h)

\* _MODEL_QUERY_IGNORE_TOKENS (the entries the model's texts can contain)
_MODEL_QUERY_IGNORE_TOKENS ==
    {"est", "kakie", "pokazhi", "model", "modeli", "cvet", "razmer", "gorod", "adres", "sumka",
     "sumki", "tufli", "obuv", "chanel", "jimmy", "choo", "miu", "gucci", "dior", "hochu",
     "zakaz", "zakazat", "kupit", "vzyat"}

_extract_specific_query_tokens(text) ==
    {tok \in tokenize_text(text) :
        /\ ~IsDigit(tok) /\ Len(tok) >= 3
        /\ tok \notin _MODEL_QUERY_IGNORE_TOKENS
        /\ ~ \E i \in 1..Len(_COLOR_PREFIXES) :
                tok = _COLOR_PREFIXES[i][2] \/ StartsWith(tok, _COLOR_PREFIXES[i][1])}

----------------------------------------------------------------------------
(* The texts of the modelled conversation, each read once *)

P1 == "Jimmy Choo Azia 95"
P2 == "Chanel Jumbo"

UserMessages ==
    {"da", "net", "Almaty", "38", "Abaya 1", "hochu Jimmy Choo Azia 95", "Chanel Jumbo",
     "beru belye", "beru chernye", "pokazhite sumki", "est Saeda"}

\* f @@ <<>> is f with every value computed
Computed(f) == f @@ <<>>

\* what the functions of a text return for the product names and the messages
TextFacts ==
    Computed([t \in UserMessages \cup {"", P1, P2} |->
                [type |-> _infer_product_type_from_text(t), tokens |-> tokenize_text(t)]])

TypeOf(text) == TextFacts[text].type
TokensOf(text) == TextFacts[text].tokens

\* what the functions of the client's message return for each message
MessageFacts ==
    Computed([m \in UserMessages |->
                [confirms |-> _is_order_confirmation(m),
                 intent |-> _has_order_intent(m),
                 browsing |-> _is_category_browsing(m),
                 browsing_type |-> _detect_browsing_category(m),
                 vague |-> _is_vague_followup(m),
                 color |-> _detect_color_in_text(m),
                 photo_request |-> _is_photo_request(m),
                 availability_request |-> _is_availability_request(m),
                 specific |-> _extract_specific_query_tokens(m)]])

----------------------------------------------------------------------------
(* ai/engine.py: one turn of generate_response *)

\* the photo catalogue: the colours _detect_color_from_filename finds among the
\* photos find_product_photos returns for a product
CatalogColors(product_name) ==
    IF Contains(Lower(product_name), "azia") THEN {"chernye", "bezhevye"}
    ELSE IF Contains(Lower(product_name), "jumbo") THEN {"chernye"}
    ELSE {}

_is_color_required(product_name) ==
    /\ Lower(Strip(product_name)) # ""
    /\ Cardinality(CatalogColors(product_name)) > 1

_get_available_colors_for_product(product_name) ==
    IF Strip(product_name) = "" THEN {} ELSE CatalogColors(Strip(product_name))

_PRODUCT_COLOR_OVERRIDES == {"chanel jumbo classic flap", "shanel dzhumbo"}

_get_product_color_overrides(product_name) ==
    LET product == Lower(Strip(product_name))
    IN IF product # "" /\ \E pat \in _PRODUCT_COLOR_OVERRIDES : Contains(product, pat)
       THEN {"chernye"} ELSE {}

\* db/conversations.py: the six columns written by upsert_order_context
upsert_order_context(fields) ==
    [city |-> Strip(fields.city), product |-> Strip(fields.product),
     product_type |-> Strip(fields.product_type), size |-> Strip(fields.size),
     color |-> Strip(fields.color), address |-> Strip(fields.address)]

\* what _extract_order_fields returns when the completion call or json.loads raises
FailedExtractionStale ==
    [city |-> "Almaty", product |-> "", product_type |-> "", size |-> "", color |-> "",
     address |-> "", ready |-> FALSE, failed |-> TRUE]
FailedExtraction ==
    [city |-> "", product |-> "", product_type |-> "", size |-> "", color |-> "",
     address |-> "", ready |-> FALSE, failed |-> TRUE]

\* an extraction that succeeded
Extracted(update, ready) ==
    [city |-> update.city, product |-> update.product, product_type |-> update.product_type,
     size |-> update.size, color |-> update.color, address |-> update.address,
     ready |-> ready, failed |-> FALSE]

\* the category-switch and category-browsing resets before the search
BrowsingReset(ctx, user_message) ==
    LET browsing_category == MessageFacts[user_message].browsing
        browsing_type == IF browsing_category THEN MessageFacts[user_message].browsing_type
                         ELSE ""
    IN IF browsing_category /\ ctx.product # ""
       THEN IF browsing_type # "" /\ ctx.product_type # "" /\ browsing_type # ctx.product_type
            THEN upsert_order_context([EmptyCtx EXCEPT !.product_type = browsing_type])
            ELSE upsert_order_context(
                    [ctx EXCEPT !.product = "", !.size = "", !.color = "", !.address = "",
                                !.product_type = IF browsing_type # "" THEN browsing_type
                                                 ELSE @])
       ELSE ctx

\* the search results that survive the requested-type filter (a result is its product name)
FilterResults(results, user_message) ==
    LET requested_product_type == TypeOf(user_message)
    IN IF requested_product_type = "" THEN results
       ELSE SelectSeq(results,
                LAMBDA r : TypeOf(r) \in {"", requested_product_type})

RagProductName(results) == IF results # <<>> THEN results[1] ELSE ""

_match_name_overlap(query_text, product_name) ==
    Cardinality(TokensOf(query_text) \cap TokensOf(product_name))

\* the first result with the largest overlap, "" without results
_pick_primary_product_match(results, query_text) ==
    IF results = <<>> THEN ""
    ELSE results[CHOOSE i \in 1..Len(results) :
            /\ \A j \in 1..Len(results) :
                _match_name_overlap(query_text, results[j])
                    <= _match_name_overlap(query_text, results[i])
            /\ \A j \in 1..(i - 1) :
                _match_name_overlap(query_text, results[j])
                    < _match_name_overlap(query_text, results[i])]

\* hint: the type _infer_product_type_from_assistant_message reads in the last reply
TargetProductType(user_message, results, hint) ==
    LET requested_product_type == TypeOf(user_message)
        primary_product_match == _pick_primary_product_match(results, user_message)
        rag_product_name == RagProductName(results)
        target == IF requested_product_type # "" THEN requested_product_type
                  ELSE TypeOf(IF primary_product_match # "" THEN primary_product_match
                              ELSE rag_product_name)
    IN IF target = "" /\ MessageFacts[user_message].vague THEN hint ELSE target

\* the message mentions the top search hit and the client is not browsing a category
MentionsRag(user_message, rag_product_name) ==
    /\ rag_product_name # ""
    /\ ~MessageFacts[user_message].browsing
    /\ TokensOf(user_message) \cap TokensOf(rag_product_name) # {}

\* extracted_fields as handed to the merge: the extraction, the product of the
\* top search hit and the product type
ExtractedFields(order_ctx, in) ==
    LET results == FilterResults(in.results, in.msg)
        rag_product_name == RagProductName(results)
        target_product_type == TargetProductType(in.msg, results, in.hint)
        product == IF in.ext.product = "" /\ order_ctx.product = ""
                      /\ MentionsRag(in.msg, rag_product_name)
                   THEN rag_product_name ELSE in.ext.product
        inferred == IF in.ext.product_type = ""
                    THEN TypeOf(IF product # "" THEN product ELSE rag_product_name)
                    ELSE in.ext.product_type
    IN [city |-> in.ext.city, product |-> product,
        product_type |-> IF target_product_type # "" THEN target_product_type ELSE inferred,
        size |-> in.ext.size, color |-> in.ext.color, address |-> in.ext.address]

\* lines 1017-1027: the merged context takes the product of the top search hit when
\* it has none, an inferred product type when it has none, and is persisted
PersistMerged(merged, rag_product_name, in) ==
    upsert_order_context(
        IF merged.product = "" /\ MentionsRag(in.msg, rag_product_name)
        THEN (IF merged.product_type = ""
              THEN [merged EXCEPT !.product = rag_product_name,
                                  !.product_type = TypeOf(rag_product_name)]
              ELSE [merged EXCEPT !.product = rag_product_name])
        ELSE (IF merged.product_type = ""
              THEN [merged EXCEPT !.product_type = TypeOf(merged.product)]
              ELSE merged))

\* the order context after the merge, as upsert_order_context persists it
MergedContext(order_ctx, in) ==
    PersistMerged(_merge_order_context(order_ctx, ExtractedFields(order_ctx, in)),
                  RagProductName(FilterResults(in.results, in.msg)), in)

\* order_ctx.get("order_type") after the merge: the dictionary _merge_order_context
\* builds has the six keys of _sanitize_order_context and get_order_context reads
\* six columns, so the key is absent until the preorder offer sets it
OrderTypeAfterMerge(order_ctx) == ""

\* the guard of the stock check
StockCheckReached(order_ctx, missing_order_fields) ==
    /\ OrderTypeAfterMerge(order_ctx) = ""
    /\ order_ctx.product # ""
    /\ order_ctx.city # ""
    /\ (missing_order_fields = <<"address">> \/ missing_order_fields = <<>>)

\* the frames get_inventory_df can return: rows of product_name, size, color,
\* quantity; load_inventory returns an empty frame when the sheet cannot be
\* fetched and nothing is cached
InventoryFrames ==
    {{},
     {[product_name |-> P1, size |-> "38", color |-> "chernye", quantity |-> 1],
      [product_name |-> P1, size |-> "38", color |-> "belye", quantity |-> 0],
      [product_name |-> P2, size |-> "", color |-> "chernye", quantity |-> 1]}}

\* one row of the frame passes the name, size and colour filters
RowMatches(row, product_name, size, color) ==
    /\ Cardinality(TokensOf(product_name) \cap TokensOf(row.product_name)) >= 2
    /\ Strip(size) # "" => Strip(row.size) = Strip(size)
    /\ Strip(color) # ""
          => \/ Contains(Lower(Strip(row.color)), Lower(Strip(color)))
             \/ Contains(Lower(Strip(color)), Lower(Strip(row.color)))

\* availability["available"]
check_product_availability(df, product_name, size, color) ==
    IF df = {} THEN FALSE
    ELSE IF TokensOf(product_name) = {} THEN FALSE
    ELSE \E row \in df : RowMatches(row, product_name, size, color) /\ row.quantity > 0

address_just_collected_never(extracted_fields) == FALSE
address_just_collected(extracted_fields) == Strip(extracted_fields.address) # ""

\* the branch that builds the order summary
SummaryBranch(missing_order_fields, in, extracted_fields) ==
    /\ missing_order_fields = <<>>
    /\ (MessageFacts[in.msg].intent \/ address_just_collected(extracted_fields) \/ in.ext.ready)

\* set_order_pending_confirm(chat_id, False) on the fast path
ResetPendingKept(pending) == pending
ResetPending(pending) == FALSE

\* the colours the requested colour is compared with
AvailableColors(active_product_name) ==
    IF _get_available_colors_for_product(active_product_name) # {}
    THEN _get_available_colors_for_product(active_product_name)
    ELSE _get_product_color_overrides(active_product_name)

\* the requested colour is not among the colours of the active product
ColorMissingFromCatalog(order_ctx, in) ==
    LET requested_color == MessageFacts[in.msg].color
        rag_product_name == RagProductName(FilterResults(in.results, in.msg))
        active_product_name == IF order_ctx.product # "" THEN order_ctx.product
                               ELSE rag_product_name
    IN /\ requested_color # "" /\ active_product_name # ""
       /\ AvailableColors(active_product_name) # {}
       /\ requested_color \notin AvailableColors(active_product_name)

\* the order context at the end of the turn: the colour is cleared when it is the
\* requested one and the product lacks it
ContextAfterColorCheck(order_ctx, in) ==
    IF ColorMissingFromCatalog(order_ctx, in) /\ order_ctx.color = MessageFacts[in.msg].color
    THEN upsert_order_context([order_ctx EXCEPT !.color = ""])
    ELSE order_ctx

\* the kind of text the turn returns when it reaches the completion call
ReplyKind(order_ctx, missing_order_fields, extracted_fields, in) ==
    LET results == FilterResults(in.results, in.msg)
        rag_product_name == RagProductName(results)
        primary_product_match == _pick_primary_product_match(results, in.msg)
        requested_color == MessageFacts[in.msg].color
        active_product_name == IF order_ctx.product # "" THEN order_ctx.product
                               ELSE rag_product_name
        policy == IF SummaryBranch(missing_order_fields, in, extracted_fields)
                  THEN "summary" ELSE "llm"
        colored ==
            IF requested_color # "" /\ active_product_name # ""
            THEN IF ColorMissingFromCatalog(order_ctx, in) THEN "color_unavailable"
                 ELSE IF ~in.photos /\ AvailableColors(active_product_name) # {}
                      THEN "color_photos_later"
                 ELSE IF ~in.photos THEN "color_unavailable"
                 ELSE policy
            ELSE policy
        photoed == IF MessageFacts[in.msg].photo_request /\ ~in.photos THEN "no_photo" ELSE colored
        specific_query_tokens == MessageFacts[in.msg].specific
        model_unavailable ==
            /\ MessageFacts[in.msg].availability_request
            /\ specific_query_tokens # {}
            /\ ~MessageFacts[in.msg].browsing
            /\ primary_product_match # ""
            /\ ~in.photos
            /\ specific_query_tokens \cap TokensOf(primary_product_match) = {}
    IN IF model_unavailable THEN "model_unavailable" ELSE photoed

----------------------------------------------------------------------------
(* The turns of one conversation *)

\* what the extraction call can return for a message: nothing (it failed) or the
\* fields the message carries
Extractable(msg) ==
    {FailedExtraction} \cup
    (CASE msg = "da" -> {Extracted(EmptyCtx, FALSE), Extracted(EmptyCtx, TRUE)}
       [] msg = "Almaty" -> {Extracted([EmptyCtx EXCEPT !.city = "Almaty"], FALSE)}
       [] msg = "38" -> {Extracted([EmptyCtx EXCEPT !.size = "38"], FALSE)}
       [] msg = "Abaya 1" -> {Extracted([EmptyCtx EXCEPT !.address = "Abaya 1"], FALSE)}
       [] msg = "hochu Jimmy Choo Azia 95" ->
            {Extracted([EmptyCtx EXCEPT !.product = P1], FALSE)}
       [] msg = "Chanel Jumbo" -> {Extracted([EmptyCtx EXCEPT !.product = P2], FALSE)}
       [] msg = "beru belye" -> {Extracted([EmptyCtx EXCEPT !.color = "belye"], TRUE)}
       [] msg = "beru chernye" -> {Extracted([EmptyCtx EXCEPT !.color = "chernye"], TRUE)}
       [] OTHER -> {Extracted(EmptyCtx, FALSE)})

\* the product search returns nothing or one product
SearchResults == {<<>>, <<P1>>, <<P2>>}

\* the type read in the last reply of the assistant; there is none before the first reply
\* whether the photo searches of the turn find anything; the text of the reply
\* depends on it only for a colour, a photo or an availability request
PhotoOutcomes(msg) ==
    IF \/ MessageFacts[msg].color # ""
       \/ MessageFacts[msg].photo_request
       \/ MessageFacts[msg].availability_request
    THEN BOOLEAN ELSE {TRUE}

\* the inputs of a turn; the hint is read only for a vague follow-up
AllTurnInputs ==
    UNION {[msg : {m}, ext : Extractable(m), results : SearchResults,
            hint : IF MessageFacts[m].vague THEN {"", "bag"} ELSE {""},
            photos : PhotoOutcomes(m)] : m \in UserMessages}

\* there is no reply to take a hint from before the first turn
TurnInputs == {in \in AllTurnInputs : t_path = "none" => in.hint = ""}

\* the rows client_order_context can hold in the modelled conversation
OrderContexts ==
    [city : {"", "Almaty"}, product : {"", P1, P2}, product_type : {"", "shoes", "bag"},
     size : {"", "38"}, color : {"", "chernye", "belye"}, address : {"", "Abaya 1"}]

\* check_product_availability, computed once for every frame and order context
AvailabilityTable ==
    Computed([df \in InventoryFrames |->
                Computed([c \in OrderContexts |->
                            check_product_availability(df, c.product, c.size, c.color)])])

\* what the stock check of a turn meets when it runs: the frame, and whether
\* the check raises
StockRuns(reached) ==
    IF reached THEN [df : InventoryFrames, raises : BOOLEAN]
    ELSE {[df |-> {}, raises |-> FALSE]}

\* the stock check of a turn: not reached, raised (caught and logged), or answered
StockCheck(reached, raises, df, order_ctx) ==
    IF ~reached THEN "not_reached"
    ELSE IF raises THEN "raised"
    ELSE IF df = {} THEN "no_inventory"
    ELSE IF AvailabilityTable[df][order_ctx] THEN "available" ELSE "unavailable"

\* if not availability["available"]: the preorder offer is made
OffersPreorder(reached, raises, df, order_ctx) ==
    /\ reached
    /\ ~raises
    /\ ~AvailabilityTable[df][order_ctx]

\* the extraction supplied this field and no other
Supplies(in, field) ==
    /\ ~in.ext.failed
    /\ {f \in {"city", "product", "size", "color", "address"} : in.ext[f] # ""} = {field}

NextScenario(in) ==
    IF Supplies(in, "product") THEN 1
    ELSE IF scenario = 1 /\ Supplies(in, "city") THEN 2
    ELSE IF scenario = 2 /\ Supplies(in, "size") THEN 3
    ELSE IF scenario = 3 /\ Supplies(in, "address") THEN 4
    ELSE 0

\* the fast path: the flag is set and the message confirms
FastPath(in) == db_pending /\ MessageFacts[in.msg].confirms

Observe(in, path, update, merged, missing, order_type, reply) ==
    /\ t_path' = path
    /\ t_msg' = in.msg
    /\ t_failed' = in.ext.failed
    /\ t_update' = update
    /\ t_merged' = merged
    /\ t_missing' = missing
    /\ t_order_type' = order_type
    /\ t_reply' = reply
    /\ scenario' = NextScenario(in)
    /\ UNCHANGED <<aggVars, mergeVars, replyVars, photoVars, extraVars>>

StepsAfterMissing(update, merged, missing, in) ==
    [update |-> update,
     merged |-> merged,
     missing |-> missing,
     stock_check |-> StockCheckReached(merged, missing),
     summary |-> SummaryBranch(missing, in, update),
     final |-> ContextAfterColorCheck(merged, in),
     reply |-> ReplyKind(merged, missing, update, in)]

StepsAfterMerge(update, merged, in) ==
    StepsAfterMissing(update, merged,
                      _build_missing_fields(merged, _is_color_required(merged.product)), in)

StepsAfterReset(base, in) ==
    StepsAfterMerge(ExtractedFields(base, in), MergedContext(base, in), in)

\* what a turn computes from the stored row and its inputs: the update handed to
\* the merge, the context the merge persists, the missing-fields list, whether the
\* stock check is reached and the summary built, and the context and the kind of
\* reply at the end of a turn that reaches the completion call
TurnSteps(ctx, in) == StepsAfterReset(BrowsingReset(ctx, in.msg), in)

\* TurnSteps, computed once for every row and input
TurnTable ==
    Computed([ctx \in OrderContexts |->
                Computed([in \in AllTurnInputs |-> TurnSteps(ctx, in)])])

Steps(in) == TurnTable[db_ctx][in]

\* the client confirms the pending order: the confirmation text, the notifications
TurnConfirmed(in) ==
    /\ t_msg = ""
    /\ FastPath(in)
    /\ \E t \in {Steps(in)} :
          /\ db_ctx' = t.merged
          /\ db_pending' = FALSE
          /\ pending_product' = ""
          /\ t_stock' = "not_reached"
          /\ Observe(in, "confirmed", t.update, t.merged, <<>>,
                     OrderTypeAfterMerge(t.merged), "confirm_text")

\* the stock check reports the product unavailable: the preorder offer
TurnPreorderOffer(in) ==
    /\ t_msg = ""
    /\ ~FastPath(in)
    /\ \E t \in {Steps(in)} : \E run \in StockRuns(t.stock_check) :
          /\ OffersPreorder(t.stock_check, run.raises, run.df, t.merged)
          /\ t_stock' = StockCheck(t.stock_check, run.raises, run.df, t.merged)
          /\ db_ctx' = t.merged
          /\ db_pending' = TRUE
          /\ pending_product' = t.merged.product
          /\ Observe(in, "preorder", t.update, t.merged, t.missing, "preorder",
                     "preorder_offer")

\* the stock check is not reached, reports the product available or raises; every
\* field is there and the client is ready: the order summary is built
TurnSummary(in) ==
    /\ t_msg = ""
    /\ ~FastPath(in)
    /\ \E t \in {Steps(in)} : \E run \in StockRuns(t.stock_check) :
          /\ t.summary
          /\ ~OffersPreorder(t.stock_check, run.raises, run.df, t.merged)
          /\ t_stock' = StockCheck(t.stock_check, run.raises, run.df, t.merged)
          /\ db_ctx' = t.final
          /\ db_pending' = TRUE
          /\ pending_product' = t.merged.product
          /\ Observe(in, "summary", t.update, t.merged, t.missing,
                     OrderTypeAfterMerge(t.merged), t.reply)

\* the same, without the summary
TurnAnswer(in) ==
    /\ t_msg = ""
    /\ ~FastPath(in)
    /\ \E t \in {Steps(in)} : \E run \in StockRuns(t.stock_check) :
          /\ ~t.summary
          /\ ~OffersPreorder(t.stock_check, run.raises, run.df, t.merged)
          /\ t_stock' = StockCheck(t.stock_check, run.raises, run.df, t.merged)
          /\ db_ctx' = t.final
          /\ db_pending' = (db_pending /\ ResetPending(db_pending))
          /\ pending_product' = IF db_pending' THEN pending_product ELSE ""
          /\ Observe(in, "answer", t.update, t.merged, t.missing,
                     OrderTypeAfterMerge(t.merged), t.reply)

\* the completion call raises: handle_message logs, notifies and apologises
TurnFails(in) ==
    /\ t_msg = ""
    /\ ~FastPath(in)
    /\ \E t \in {Steps(in)} : \E run \in StockRuns(t.stock_check) :
          /\ ~OffersPreorder(t.stock_check, run.raises, run.df, t.merged)
          /\ t_stock' = StockCheck(t.stock_check, run.raises, run.df, t.merged)
          /\ db_ctx' = t.merged
          /\ db_pending' = (db_pending /\ ResetPending(db_pending))
          /\ pending_product' = IF db_pending' THEN pending_product ELSE ""
          /\ Observe(in, "error", t.update, t.merged, t.missing,
                     OrderTypeAfterMerge(t.merged), "apology")

\* generate_response has returned and handle_message has sent the reply: the
\* locals of the call are gone, the stored order and what the client was told stay
TurnReturned ==
    /\ t_msg # ""
    /\ t_msg' = ""
    /\ t_failed' = FALSE
    /\ t_update' = EmptyCtx
    /\ t_merged' = EmptyCtx
    /\ t_stock' = "not_reached"
    /\ UNCHANGED <<db_ctx, db_pending, t_path, t_missing, t_order_type, t_reply,
                   pending_product, scenario>>
    /\ UNCHANGED <<aggVars, mergeVars, replyVars, photoVars, extraVars>>

TurnInit ==
    /\ db_ctx = EmptyCtx
    /\ db_pending = FALSE
    /\ t_path = "none"
    /\ t_msg = ""
    /\ t_failed = FALSE
    /\ t_update = EmptyCtx
    /\ t_merged = EmptyCtx
    /\ t_missing = <<>>
    /\ t_order_type = ""
    /\ t_stock = "not_reached"
    /\ t_reply = ""
    /\ pending_product = ""
    /\ scenario = 0

----------------------------------------------------------------------------
(* ai/order_manager.py, ai/engine.py: the text of a reply *)

IsSpace(ch) == ch \in {" ", "\n"}

IsWordChar(ch) == ch \in AlnumChars \/ ch = "_"

\* the text has p at position i
StartsAt(t, i, p) == i >= 1 /\ i + Len(p) - 1 <= Len(t) /\ SubSeq(t, i, i + Len(p) - 1) = p

\* the first position of p in s, 0 when there is none
IndexOf(s, p) ==
    IF Contains(s, p)
    THEN CHOOSE i \in 1..Len(s) : StartsAt(s, i, p) /\ \A j \in 1..(i - 1) : ~StartsAt(s, j, p)
    ELSE 0

RECURSIVE Split(_, _)
\* str.split(sep)
Split(s, sep) ==
    IF IndexOf(s, sep) = 0 THEN <<s>>
    ELSE <<SubSeq(s, 1, IndexOf(s, sep) - 1)>>
         \o Split(SubSeq(s, IndexOf(s, sep) + Len(sep), Len(s)), sep)

RECURSIVE Join(_, _)
\* sep.join(parts)
Join(parts, sep) ==
    IF Len(parts) = 0 THEN ""
    ELSE IF Len(parts) = 1 THEN parts[1]
    ELSE parts[1] \o sep \o Join(Tail(parts), sep)

StripEach(parts) == [i \in 1..Len(parts) |-> Strip(parts[i])]

\* [p.strip() for p in text.split("|||") if p.strip()]
Parts(text) == SelectSeq(StripEach(Split(text, "|||")), LAMBDA p : p # "")

_CHECKOUT_HINTS ==
    {"zafiks", "oformit zakaz", "oformlyaem zakaz", "adres dostavki",
     "napishite, pozhaluysta, adres", "kuda otprav"}

_strip_checkout_prompts(text) ==
    IF text = "" THEN text
    ELSE Join(SelectSeq(Parts(text),
                        LAMBDA p : ~(Len(p) < 120
                                     /\ \E h \in _CHECKOUT_HINTS : Contains(Lower(p), h))),
              "|||")

\* "oform", word characters, white space, "zakaz", starting at i
MatchOformZakaz(t, i) ==
    /\ StartsAt(t, i, "oform")
    /\ \E j \in (i + 5)..Len(t) :
          /\ \A k \in (i + 5)..(j - 1) : IsWordChar(SubSeq(t, k, k))
          /\ \E m \in (j + 1)..Len(t) :
                /\ \A k \in j..(m - 1) : IsSpace(SubSeq(t, k, k))
                /\ StartsAt(t, m, "zakaz")

\* the word, white space, "zakaz", starting at i
MatchWordZakaz(t, i, word) ==
    /\ StartsAt(t, i, word)
    /\ \E m \in (i + Len(word) + 1)..Len(t) :
          /\ \A k \in (i + Len(word))..(m - 1) : IsSpace(SubSeq(t, k, k))
          /\ StartsAt(t, m, "zakaz")

\* "horosho", an optional comma, optional white space, "oform", starting at i
MatchHoroshoOform(t, i) ==
    /\ StartsAt(t, i, "horosho")
    /\ \E c \in {0, 1} :
          /\ (c = 1 => StartsAt(t, i + 7, ","))
          /\ \E m \in (i + 7 + c)..Len(t) :
                /\ \A k \in (i + 7 + c)..(m - 1) : IsSpace(SubSeq(t, k, k))
                /\ StartsAt(t, m, "oform")

\* \b before the letter at position i
WordBoundary(t, i) == i = 1 \/ ~IsWordChar(SubSeq(t, i - 1, i - 1))

\* _ORDER_CONFIRM_RE.search on the lower-cased text ((?i))
OrderConfirmSearchLower(t) ==
    \E i \in 1..Len(t) :
        /\ WordBoundary(t, i)
        /\ \/ MatchOformZakaz(t, i)
           \/ MatchWordZakaz(t, i, "oformlyaem")
           \/ MatchWordZakaz(t, i, "oformim")
           \/ MatchHoroshoOform(t, i)

_ORDER_CONFIRM_RE(text) == OrderConfirmSearchLower(Lower(text))

ContainsOrderConfirmLower(t) ==
    \/ Contains(t, "horosho, oformlyaem zakaz")
    \/ Contains(t, "horosho oformlyaem zakaz")
    \/ (Contains(t, "oform") /\ Contains(t, "zakaz"))
    \/ \E i \in 1..Len(t) : MatchOformZakaz(t, i)

_contains_order_confirm(text) == ContainsOrderConfirmLower(Lower(text))

RECURSIVE SkipSpaces(_)
SkipSpaces(s) ==
    IF Len(s) > 0 /\ IsSpace(SubSeq(s, 1, 1)) THEN SkipSpaces(SubSeq(s, 2, Len(s))) ELSE s

\* the positions where a sentence ends: ".", "!" or "?" followed by white space
SentenceEnds(s) ==
    {i \in 1..(Len(s) - 1) : SubSeq(s, i, i) \in {".", "!", "?"} /\ IsSpace(SubSeq(s, i + 1, i + 1))}

FirstOf(S) == CHOOSE i \in S : \A j \in S : i <= j

RECURSIVE SplitSentences(_)
\* re.split(r"(?<=[.!?])\s+", part)
SplitSentences(s) ==
    IF SentenceEnds(s) = {} THEN <<s>>
    ELSE <<SubSeq(s, 1, FirstOf(SentenceEnds(s)))>>
         \o SplitSentences(SkipSpaces(SubSeq(s, FirstOf(SentenceEnds(s)) + 1, Len(s))))

JoinIfAny(clean_sentences) ==
    IF clean_sentences # <<>> THEN <<Join(clean_sentences, " ")>> ELSE <<>>

\* what one part contributes to kept
KeptOfPart(part) ==
    IF ~_ORDER_CONFIRM_RE(part) THEN <<part>>
    ELSE IF Len(part) < 150 THEN <<>>
    ELSE JoinIfAny(SelectSeq(SplitSentences(part), LAMBDA sentence : ~_ORDER_CONFIRM_RE(sentence)))

RECURSIVE KeptOfParts(_)
KeptOfParts(parts) ==
    IF parts = <<>> THEN <<>> ELSE KeptOfPart(Head(parts)) \o KeptOfParts(Tail(parts))

OrText(result, default) == IF result # "" THEN result ELSE default

_strip_order_confirm(text) ==
    IF text = "" THEN text
    ELSE OrText(Strip(Join(KeptOfParts(Parts(text)), "|||")), "Seychas utochnyu detali zakaza.")

_FIELD_PROMPT_HINTS ==
    [field \in {"city", "product", "size", "color", "address"} |->
        CASE field = "city" -> {"gorod", "iz kakogo", "otkuda"}
          [] field = "product" -> {"kakuyu model", "kakoy tovar", "chto oformlyaem"}
          [] field = "size" -> {"razmer"}
          [] field = "color" -> {"cvet", "rascvetk"}
          [] field = "address" -> {"adres", "ulic", "dom", "kvarti"}]

_asks_for_field(text, field) == \E h \in _FIELD_PROMPT_HINTS[field] : Contains(Lower(text), h)

_assistant_already_requests_missing(text, missing_fields) ==
    \E i \in 1..Len(missing_fields) : _asks_for_field(text, missing_fields[i])

_has_question(text) == Contains(text, "?")

_question_for_missing(field) ==
    CASE field = "city" -> "Podskazhite, pozhaluysta, iz kakogo vy goroda?"
      [] field = "product" -> "Utochnite, pozhaluysta, kakuyu model oformlyaem?"
      [] field = "size" -> "Podskazhite, pozhaluysta, kakoy razmer vam nuzhen?"
      [] field = "color" -> "Podskazhite, pozhaluysta, kakoy cvet vybiraete?"
      [] field = "address" -> "Napishite, pozhaluysta, adres dostavki?"
      [] OTHER -> "Podskazhite, pozhaluysta, nedostayuschie dannye dlya oformleniya zakaza?"

\* the lines of _build_order_summary
SummaryLines(order_ctx) ==
    <<"Vash zakaz:">>
    \o (IF order_ctx.product # "" THEN <<"Tovar: " \o order_ctx.product>> ELSE <<>>)
    \o (IF order_ctx.product_type \in SIZE_REQUIRED_TYPES /\ order_ctx.size # ""
        THEN <<"Razmer: " \o order_ctx.size>> ELSE <<>>)
    \o (IF order_ctx.color # "" THEN <<"Cvet: " \o order_ctx.color>> ELSE <<>>)
    \o (IF order_ctx.city # "" THEN <<"Gorod: " \o order_ctx.city>> ELSE <<>>)
    \o (IF order_ctx.address # "" THEN <<"Adres: " \o order_ctx.address>> ELSE <<>>)

_build_order_summary(order_ctx) ==
    JoinNL(SummaryLines(order_ctx)) \o "|||Proverte, pozhaluysta, vse verno? Oformlyaem?"

\* what the character at position i becomes: a run of white space becomes one space
CollapsedAt(s, i) ==
    IF ~IsSpace(SubSeq(s, i, i)) THEN SubSeq(s, i, i)
    ELSE IF i > 1 /\ IsSpace(SubSeq(s, i - 1, i - 1)) THEN ""
    ELSE " "

RECURSIVE CollapseRange(_, _, _)
CollapseRange(s, lo, hi) ==
    IF lo > hi THEN ""
    ELSE IF lo = hi THEN CollapsedAt(s, lo)
    ELSE CollapseRange(s, lo, (lo + hi) \div 2) \o CollapseRange(s, (lo + hi) \div 2 + 1, hi)

\* re.sub(r"\s+", " ", s)
CollapseSpaces(s) == CollapseRange(s, 1, Len(s))

RECURSIVE KeepWordChars(_)
\* re.sub(r"[^\w\s...]", "", s)
KeepWordChars(s) ==
    IF Len(s) = 0 THEN s
    ELSE IF Len(s) = 1 THEN (IF IsWordChar(s) \/ IsSpace(s) THEN s ELSE "")
    ELSE KeepWordChars(SubSeq(s, 1, Len(s) \div 2))
         \o KeepWordChars(SubSeq(s, Len(s) \div 2 + 1, Len(s)))

DedupeKey(part) == KeepWordChars(CollapseSpaces(Lower(part)))

RECURSIVE DedupeParts(_, _)
DedupeParts(parts, seen) ==
    IF parts = <<>> THEN <<>>
    ELSE IF DedupeKey(Head(parts)) \in seen THEN DedupeParts(Tail(parts), seen)
    ELSE <<Head(parts)>> \o DedupeParts(Tail(parts), seen \cup {DedupeKey(Head(parts))})

_dedupe_response_parts(text) ==
    IF text = "" \/ Parts(text) = <<>> THEN text
    ELSE Join(DedupeParts(Parts(text), {}), "|||")

RECURSIVE LStripBars(_)
LStripBars(s) ==
    IF Len(s) > 0 /\ SubSeq(s, 1, 1) = "|" THEN LStripBars(SubSeq(s, 2, Len(s))) ELSE s

\* str.strip("|")
StripBars(s) == RStripChars(LStripBars(s), {"|"})

\* 7a: without order intent in the client's message the checkout prompts are removed
AfterCheckoutStrip(stripped, missing_order_fields, in) ==
    IF stripped # "" THEN stripped
    ELSE IF missing_order_fields = <<>> /\ (in.ready \/ in.address_just_collected) THEN ""
    ELSE "Seychas utochnyu po modeli i nalichiyu."

StripCheckout(assistant_text, missing_order_fields, in) ==
    IF in.intent THEN assistant_text
    ELSE AfterCheckoutStrip(_strip_checkout_prompts(assistant_text), missing_order_fields, in)

should_force_on_first_turn(missing_order_fields, in) ==
    /\ ~in.browsing
    /\ (in.intent \/ in.address_just_collected \/ in.ctx.product # "")
should_force_missing_question(missing_order_fields, in) ==
    /\ ~in.is_new_client
    /\ ~in.browsing
    /\ (in.intent \/ in.address_just_collected \/ in.ctx.product # "")

\* 7b with missing fields: the question for the first missing field is appended
ForceNoQuestion(assistant_text, missing_order_fields, in) == assistant_text
ForceMissingQuestion(assistant_text, missing_order_fields, in) ==
    IF /\ should_force_missing_question(missing_order_fields, in)
       /\ ~_assistant_already_requests_missing(assistant_text, missing_order_fields)
       /\ ~_has_question(assistant_text)
    THEN StripBars(assistant_text \o "|||" \o _question_for_missing(missing_order_fields[1]))
    ELSE assistant_text

\* 7b: no order confirmation before every field is there; the summary when it is
HardCheck(assistant_text, missing_order_fields, in) ==
    IF missing_order_fields # <<>>
    THEN ForceMissingQuestion(IF _contains_order_confirm(assistant_text)
                              THEN _strip_order_confirm(assistant_text)
                              ELSE assistant_text,
                              missing_order_fields, in)
    ELSE IF in.intent \/ in.address_just_collected \/ in.ready
         THEN _build_order_summary(in.ctx)
         ELSE assistant_text

\* after the photos of a browsed category the client is asked which model
BrowsingQuestion(assistant_text, in) ==
    IF in.browsing /\ in.photos /\ ~Contains(assistant_text, "?")
    THEN assistant_text \o "|||Kakuyu model hotite rassmotret poblizhe? :)"
    ELSE assistant_text

\* the text returned for a message that names no colour and asks for no photo and no
\* availability: the steps between the two _dedupe_response_parts keep such a text
ShapeReply(missing_order_fields, in) ==
    _dedupe_response_parts(
        BrowsingQuestion(
            _dedupe_response_parts(
                HardCheck(StripCheckout(in.text, missing_order_fields, in),
                          missing_order_fields, in)),
            in))

\* the texts the completion returns, after _strip_duplicate_greeting and
\* _strip_duplicate_trust_message, which change nothing in a conversation without a
\* greeting or a trust message
LongAnswer ==
    "Eta model seychas est v nalichii, kachestvo premium, kozha plotnaya, furnitura akkuratnaya, "
    \o "vse shvy rovnye. Oformlyaem zakaz. Dostavka po gorodu zanimaet odin ili dva dnya."

AssistantTexts ==
    {"Horosho, oformlyaem zakaz!",
     "Otlichnyy vybor!|||Horosho, oformlyaem zakaz",
     "Vash zakaz oformlen!",
     "Horosho, oformlyaem!",
     LongAnswer,
     "Eta model est v nalichii.",
     "Podskazhite, pozhaluysta, iz kakogo vy goroda?",
     "Otlichnyy vybor!|||otlichnyy  vybor",
     "Napishite, pozhaluysta, adres dostavki"}

\* the order contexts of the replies: one for every shape of the missing-fields list
ReplyContexts ==
    {c \in OrderContexts :
        /\ c.product_type = TypeOf(c.product)
        /\ c.color # "belye"
        /\ (c.product = "" => c.size = "" /\ c.color = "" /\ c.address = "")
        /\ (c.size # "" <=> c.product = P1)
        /\ (c.color # "" => c.product = P1)
        /\ (c.address # "" => c.city # "")}

ReplyInputs ==
    {in \in [text : AssistantTexts, ctx : ReplyContexts, intent : BOOLEAN, ready : BOOLEAN,
             address_just_collected : BOOLEAN, is_new_client : BOOLEAN, browsing : BOOLEAN,
             photos : BOOLEAN] :
        /\ (in.address_just_collected => in.ctx.address # "")
        /\ (in.photos => in.browsing)}

MissingOf(ctx) == _build_missing_fields(ctx, _is_color_required(ctx.product))

ReplyInit ==
    /\ r_phase = "idle"
    /\ r_in = [text |-> "", ctx |-> EmptyCtx, intent |-> FALSE, ready |-> FALSE,
               address_just_collected |-> FALSE, is_new_client |-> TRUE, browsing |-> FALSE,
               photos |-> FALSE]
    /\ r_missing = <<>>
    /\ r_reply = ""

Shaped(in, missing_order_fields) ==
    /\ r_phase' = "returned"
    /\ r_in' = in
    /\ r_missing' = missing_order_fields
    /\ r_reply' = ShapeReply(missing_order_fields, in)
    /\ UNCHANGED <<aggVars, mergeVars, turnVars, photoVars, extraVars>>

\* a reply while a field of the order is missing
ReplyWhileMissing(in) ==
    /\ r_phase = "idle"
    /\ MissingOf(in.ctx) # <<>>
    /\ Shaped(in, MissingOf(in.ctx))

\* a reply when every field is there
ReplyWhenComplete(in) ==
    /\ r_phase = "idle"
    /\ MissingOf(in.ctx) = <<>>
    /\ Shaped(in, <<>>)

\* handle_message sends the text
ReplySent ==
    /\ r_phase = "returned"
    /\ r_phase' = "idle"
    /\ r_in' = [text |-> "", ctx |-> EmptyCtx, intent |-> FALSE, ready |-> FALSE,
                address_just_collected |-> FALSE, is_new_client |-> TRUE, browsing |-> FALSE,
                photos |-> FALSE]
    /\ r_missing' = <<>>
    /\ r_reply' = ""
    /\ UNCHANGED <<aggVars, mergeVars, turnVars, photoVars, extraVars>>

----------------------------------------------------------------------------
(* ai/engine.py, gdrive/photo_mapper.py: the photos of a turn *)

\* the photo index: one folder per product, named after it; a photo is
\* identified by the product of its folder, and its file name carries that name
PhotoIndexes == SUBSET {P1, P2}

\* _meaningful: the words of the query that are no stop words (no word occurs
\* twice in a product name of the model)
MeaningfulWords(product_name) ==
    {w \in FindWords(Lower(product_name), "") :
        w \notin STOP_WORDS /\ (Len(w) > 2 \/ w \in DOMAIN BRAND_MAP)}

MinScore(product_name) == IF Cardinality(MeaningfulWords(product_name)) >= 2 THEN 2 ELSE 1

\* `name_lower in key or key in name_lower` over the folder keys
KeyMatches(index, product_name) ==
    {p \in index : \/ Contains(Lower(p), Lower(product_name))
                   \/ Contains(Lower(product_name), Lower(p))}

\* _match_score(expanded_tokens, filename) >= min_score
Scored(index, product_name) ==
    {p \in index :
        Cardinality(TokensOf(product_name) \cap TokensOf(p)) >= MinScore(product_name)}

\* the photos with the best score
BestScored(index, product_name) ==
    {p \in Scored(index, product_name) :
        \A q \in Scored(index, product_name) :
            Cardinality(TokensOf(product_name) \cap TokensOf(q))
                <= Cardinality(TokensOf(product_name) \cap TokensOf(p))}

\* find_product_photos(product_name=...): the first folder whose key matches,
\* otherwise the best-scored photos (no text of the model has a related category)
find_product_photos(index, product_name) ==
    IF product_name = "" \/ index = {} THEN {}
    ELSE IF KeyMatches(index, product_name) # {}
         THEN {CHOOSE p \in KeyMatches(index, product_name) : TRUE}
    ELSE IF TokensOf(product_name) = {} THEN {}
    ELSE BestScored(index, product_name)

\* the client's message fills a field that was missing before the merge
is_answering_missing_field(pre_merge_missing, extracted_fields) ==
    \E i \in 1..Len(pre_merge_missing) : extracted_fields[pre_merge_missing[i]] # ""

\* the primary search: by the order's product when the client answers a
\* question about a missing field, by the message otherwise
PrimaryQuery(answering, order_ctx, user_message) ==
    IF answering /\ order_ctx.product # "" THEN order_ctx.product ELSE user_message

\* the search by the product of the order context
ByOrderProduct(photos, answering, order_ctx, target_product_type, index) ==
    IF /\ photos = {}
       /\ ~answering
       /\ order_ctx.product # ""
       /\ (target_product_type = "" \/ TypeOf(order_ctx.product) \in {"", target_product_type})
    THEN find_product_photos(index, order_ctx.product)
    ELSE photos

RECURSIVE FirstRagPhotos(_, _, _, _)
\* the first search result that is not skipped and has photos
FirstRagPhotos(results, user_message, long_history, index) ==
    IF results = <<>> THEN {}
    ELSE IF /\ TokensOf(user_message) # {}
            /\ TokensOf(user_message) \cap TokensOf(Head(results)) = {}
            /\ ~long_history
         THEN FirstRagPhotos(Tail(results), user_message, long_history, index)
    ELSE IF find_product_photos(index, Head(results)) # {}
         THEN find_product_photos(index, Head(results))
    ELSE FirstRagPhotos(Tail(results), user_message, long_history, index)

\* the fallback over the search results
ByRagResults(photos, answering, results, user_message, long_history, index) ==
    IF photos = {} /\ ~answering
    THEN FirstRagPhotos(results, user_message, long_history, index)
    ELSE photos

\* stage 3: the product the completion's text mentions
ByMention(photos, answering, gpt_product, index) ==
    IF photos = {} /\ ~answering /\ gpt_product # ""
    THEN find_product_photos(index, gpt_product)
    ELSE photos

\* stage 5: the hint of a vague follow-up
ByHint(photos, answering, assistant_context_hint, index) ==
    IF photos = {} /\ ~answering /\ assistant_context_hint # ""
    THEN find_product_photos(index, assistant_context_hint)
    ELSE photos

_build_fallback_photo_queries(user_message, requested_type) ==
    IF \E x \in {"san loran", "iv san", "saint laurent", "ysl"} : Contains(Lower(user_message), x)
    THEN (IF requested_type = "shoes" THEN <<"Saint Laurent Opyum">>
          ELSE IF requested_type = "bag" THEN <<"Yves Saint Laurent Monogram">>
          ELSE <<>>)
    ELSE <<>>

\* the fallback queries of the requested type
ByFallback(photos, user_message, target_product_type, index) ==
    IF /\ photos = {}
       /\ target_product_type # ""
       /\ _build_fallback_photo_queries(user_message, target_product_type) # <<>>
    THEN find_product_photos(index,
                             _build_fallback_photo_queries(user_message, target_product_type)[1])
    ELSE photos

\* the type read in the file name is the type of the product it names
_filter_photos_by_requested_type(photos, requested_type) ==
    IF photos = {} \/ requested_type = "" THEN photos
    ELSE {p \in photos : TypeOf(p) = requested_type}

\* the photos after the type filter and its own fallback
TypedPhotos(photos, user_message, target_product_type, index) ==
    IF target_product_type = "" THEN photos
    ELSE _filter_photos_by_requested_type(
            ByFallback(_filter_photos_by_requested_type(photos, target_product_type),
                       user_message, target_product_type, index),
            target_product_type)

\* the turns whose photos are modelled: no confirmation is pending and no
\* preorder is offered, so generate_response reaches the photo search
PhotoTurnInputs ==
    {in \in AllTurnInputs :
        /\ MessageFacts[in.msg].color = ""
        /\ ~MessageFacts[in.msg].photo_request
        /\ ~MessageFacts[in.msg].availability_request
        /\ in.hint = ""}

\* a stored context, a turn, the photo index, the product the completion
\* mentions, and whether the history has more than two messages
PhotoInputs ==
    [ctx : ReplyContexts, in : PhotoTurnInputs, index : PhotoIndexes,
     mention : {"", P1}, long_history : BOOLEAN]

\* pre_merge_missing
PreMergeMissing(order_ctx) == _build_missing_fields(order_ctx, _is_color_required(order_ctx.product))

Answering(x) ==
    is_answering_missing_field(PreMergeMissing(BrowsingReset(x.ctx, x.in.msg)),
                               TurnTable[x.ctx][x.in].update)

PhotoInit ==
    /\ p_phase = "idle"
    /\ p_in = [ctx |-> EmptyCtx, index |-> {}, mention |-> "", long_history |-> FALSE]
    /\ p_answering = FALSE
    /\ p_ctx = EmptyCtx
    /\ p_photos = {}

\* the search stages in the order of the code, then the type filter, for a turn
\* whose message names no colour and asks for no photo and no availability
PhotosReturned(x, answering) ==
    \E t \in {TurnTable[x.ctx][x.in]} :
    \E rag \in {FilterResults(x.in.results, x.in.msg)} :
    \E target \in {TargetProductType(x.in.msg, rag, x.in.hint)} :
    \E primary \in {find_product_photos(x.index, PrimaryQuery(answering, t.merged, x.in.msg))} :
    \E by_order \in {ByOrderProduct(primary, answering, t.merged, target, x.index)} :
    \E by_rag \in {ByRagResults(by_order, answering, rag, x.in.msg, x.long_history, x.index)} :
    \E by_mention \in {ByMention(by_rag, answering, x.mention, x.index)} :
    \E by_hint \in {ByHint(by_mention, answering, x.in.hint, x.index)} :
    \E found \in {ByFallback(by_hint, x.in.msg, target, x.index)} :
        /\ p_phase' = "returned"
        /\ p_in' = x
        /\ p_answering' = answering
        /\ p_ctx' = t.merged
        /\ p_photos' = TypedPhotos(found, x.in.msg, target, x.index)
        /\ UNCHANGED <<aggVars, mergeVars, turnVars, replyVars, extraVars>>

\* a turn whose extraction fills a field that was missing
PhotosWhenAnswering ==
    /\ p_phase = "idle"
    /\ \E x \in PhotoInputs : Answering(x) /\ PhotosReturned(x, TRUE)

\* any other turn
PhotosOtherwise ==
    /\ p_phase = "idle"
    /\ \E x \in PhotoInputs : ~Answering(x) /\ PhotosReturned(x, FALSE)

\* handle_message sends the photos
PhotosSent ==
    /\ p_phase = "returned"
    /\ p_phase' = "idle"
    /\ p_in' = [ctx |-> EmptyCtx, index |-> {}, mention |-> "", long_history |-> FALSE]
    /\ p_answering' = FALSE
    /\ p_ctx' = EmptyCtx
    /\ p_photos' = {}
    /\ UNCHANGED <<aggVars, mergeVars, turnVars, replyVars, extraVars>>

----------------------------------------------------------------------------
(* gdrive/photo_mapper.py, ai/engine.py: the photo-selection functions, one call each *)

\* the words of the texts given to the tokenizer: stop words, table keys of two and
\* more letters, short and long words, numbers of one and more digits
TokenWords == {"hochu", "Est", "jpg", "ya", "na", "iv", "Iv", "chu", "Shanel", "sumki",
               "tufli", "38", "5", "100", "a1"}

\* the texts given to the tokenizer: one word, or two words and a separator
TokenTexts == TokenWords \cup {a \o sep \o b : a \in TokenWords, b \in TokenWords, sep \in {" ", "-"}}

\* _COLOR_PATTERNS in list order: pattern, colour key
_COLOR_PATTERNS ==
    << <<"rozov", "rozovye">>, <<"pink", "rozovye">>, <<"chern", "chernye">>,
       <<"black", "chernye">>, <<"bezh", "bezhevye">>, <<"beige", "bezhevye">>,
       <<"bezhev", "bezhevye">>, <<"belyy", "belye">>, <<"white", "belye">>,
       <<"krasn", "krasnye">>, <<"red", "krasnye">>, <<"siniy", "sinie">>,
       <<"sin", "sinie">>, <<"blue", "sinie">>, <<"zolot", "zolotye">>,
       <<"gold", "zolotye">>, <<"serebr", "serebryanye">>, <<"silver", "serebryanye">>,
       <<"seryy", "serye">>, <<"gray", "serye">>, <<"grey", "serye">>,
       <<"zelen", "zelenye">>, <<"green", "zelenye">>, <<"korichnev", "korichnevye">>,
       <<"brown", "korichnevye">>, <<"navy", "sinie">> >>

_COLOR_ORDER == <<"bezhevye", "chernye", "rozovye", "belye", "krasnye", "sinie", "zolotye",
                  "serebryanye", "serye", "zelenye", "korichnevye">>

\* the key of the first pattern found in the lowered name, "other" when there is none
_color_from_filename(filename) ==
    LET name == Lower(filename)
        hits == {i \in 1..Len(_COLOR_PATTERNS) : Contains(name, _COLOR_PATTERNS[i][1])}
    IN IF hits = {} THEN "other"
       ELSE _COLOR_PATTERNS[CHOOSE i \in hits : \A j \in hits : i <= j][2]

\* the photos of one model of ballet flats: seven colours, one of them twice, and two
\* photos whose name has no colour
VarietyPool ==
    << [file_id |-> "b1", filename |-> "baletki bezhevye 1.jpg"],
       [file_id |-> "b2", filename |-> "baletki bezhevye 2.jpg"],
       [file_id |-> "b3", filename |-> "baletki chernye 1.jpg"],
       [file_id |-> "b4", filename |-> "baletki rozovye 1.jpg"],
       [file_id |-> "b5", filename |-> "baletki White 1.jpg"],
       [file_id |-> "b6", filename |-> "baletki red 1.jpg"],
       [file_id |-> "b7", filename |-> "baletki sinie 1.jpg"],
       [file_id |-> "b8", filename |-> "baletki gold 1.jpg"],
       [file_id |-> "b9", filename |-> "baletki 1.jpg"],
       [file_id |-> "b10", filename |-> "baletki 2.jpg"] >>

\* the photos of eight bags, two of them with two photos
ShowcasePool ==
    << [file_id |-> "s1", filename |-> "sumka Miu Miu 1.jpg"],
       [file_id |-> "s2", filename |-> "sumka Miu Miu 2.jpg"],
       [file_id |-> "s3", filename |-> "sumka LV.jpg"],
       [file_id |-> "s4", filename |-> "Sumka chernaya YSL.jpg"],
       [file_id |-> "s5", filename |-> "Sumka chernaya Chanel 25 1.jpg"],
       [file_id |-> "s6", filename |-> "Sumka chernaya Chanel 25 2.jpg"],
       [file_id |-> "s7", filename |-> "sumka Dior 1.jpg"],
       [file_id |-> "s8", filename |-> "sumka Gucci.jpg"],
       [file_id |-> "s9", filename |-> "sumka Prada 1.jpg"],
       [file_id |-> "s10", filename |-> "sumka bezhevaya Fendi.jpg"] >>

\* the photo lists drawn from a pool: any of its photos, in the pool's order
SubLists(pool) ==
    {SelectSeq(pool, LAMBDA ph : ph.file_id \in ids) :
        ids \in SUBSET {pool[i].file_id : i \in 1..Len(pool)}}

PoolNames == {VarietyPool[i].filename : i \in 1..Len(VarietyPool)}
                \cup {ShowcasePool[i].filename : i \in 1..Len(ShowcasePool)}

ColorOf == Computed([f \in PoolNames |-> _color_from_filename(f)])

\* by_color[color]
ByColor(images, color) == SelectSeq(images, LAMBDA img : ColorOf[img.filename] = color)

\* the colours of _COLOR_ORDER that have photos, then the other keys sorted: every key
\* of _COLOR_PATTERNS is in _COLOR_ORDER, which leaves "other"
ColorOrder(images) ==
    SelectSeq(_COLOR_ORDER \o <<"other">>, LAMBDA c : ByColor(images, c) # <<>>)

RECURSIVE TakeByColor(_, _, _, _, _)
\* the loop over the colours: up to max_per_color photos of each, until max_total
TakeByColor(order, images, result, max_total, max_per_color) ==
    IF order = <<>> \/ Len(result) >= max_total THEN result
    ELSE LET of_color == ByColor(images, Head(order))
             take == Min(Min(max_per_color, max_total - Len(result)), Len(of_color))
         IN TakeByColor(Tail(order), images, result \o SubSeq(of_color, 1, take),
                        max_total, max_per_color)

\* the photos without a colour fill what is left of max_total, from the first one
FillWithOther(images, result, max_total) ==
    LET other == ByColor(images, "other")
    IN IF Len(result) < max_total /\ other # <<>>
       THEN result \o SubSeq(other, 1, Min(max_total - Len(result), Len(other)))
       ELSE result

select_photos_with_color_variety(images, max_total, max_per_color) ==
    IF images = <<>> \/ max_total <= 0 THEN <<>>
    ELSE LET result == FillWithOther(
                 images,
                 TakeByColor(ColorOrder(images), images, <<>>, max_total, max_per_color),
                 max_total)
         IN SubSeq(result, 1, Min(Len(result), max_total))

RECURSIVE TrailingRun(_, _)
\* the length of the longest suffix of s made of the characters of chars
TrailingRun(s, chars) ==
    IF Len(s) > 0 /\ SubSeq(s, Len(s), Len(s)) \in chars
    THEN 1 + TrailingRun(SubSeq(s, 1, Len(s) - 1), chars)
    ELSE 0

\* re.sub(r'\.\w+$', '', name)
StripExtension(name) ==
    LET n == TrailingRun(name, AlnumChars \cup {"_"})
    IN IF n > 0 /\ Len(name) > n /\ SubSeq(name, Len(name) - n, Len(name) - n) = "."
       THEN SubSeq(name, 1, Len(name) - n - 1)
       ELSE name

\* re.sub(r'\s+\d+$', '', name)
StripPhotoNumber(name) ==
    LET d == TrailingRun(name, Digits)
        rest == SubSeq(name, 1, Len(name) - d)
        w == TrailingRun(rest, {" ", "\n"})
    IN IF d > 0 /\ w > 0 THEN SubSeq(rest, 1, Len(rest) - w) ELSE name

_product_key_from_filename(filename) == Strip(StripPhotoNumber(StripExtension(Lower(filename))))

KeyOf == Computed([f \in PoolNames |-> _product_key_from_filename(f)])

RECURSIVE DedupeFrom(_, _)
DedupeFrom(photos, seen) ==
    IF photos = <<>> THEN <<>>
    ELSE LET p == Head(photos)
             key == IF p.file_id # "" THEN p.file_id ELSE p.filename
         IN IF key = "" \/ key \in seen THEN DedupeFrom(Tail(photos), seen)
            ELSE <<p>> \o DedupeFrom(Tail(photos), seen \cup {key})

_dedupe_photos(photos) == DedupeFrom(photos, {})

MAX_PHOTOS_PRODUCT_SHOWCASE == 6

\* the photos whose lowered name has a prefix of the requested colour
MatchingColor(found_photos, requested_color) ==
    SelectSeq(found_photos, LAMBDA img :
        \E i \in 1..Len(_COLOR_PREFIXES) :
            /\ _COLOR_PREFIXES[i][2] = requested_color
            /\ Contains(Lower(img.filename), _COLOR_PREFIXES[i][1]))

\* the keys of product_groups, in the order of their first photo
RECURSIVE FirstKeys(_, _)
FirstKeys(photos, seen) ==
    IF photos = <<>> THEN <<>>
    ELSE LET k == KeyOf[Head(photos).filename]
         IN IF k \in seen THEN FirstKeys(Tail(photos), seen)
            ELSE <<k>> \o FirstKeys(Tail(photos), seen \cup {k})

\* product_groups[key]
ProductGroup(found_photos, key) ==
    SelectSeq(found_photos, LAMBDA ph : KeyOf[ph.filename] = key)

ShowcaseAll(found_photos, key) == ProductGroup(found_photos, key)
\* what the showcase takes of one product: product_groups[key][0]
ShowcaseOne(found_photos, key) == <<Head(ProductGroup(found_photos, key))>>

RECURSIVE Showcase(_, _, _, _)
\* one photo of each product, in the order of the groups, until the limit
Showcase(keys, found_photos, picked, limit) ==
    IF keys = <<>> THEN picked
    ELSE LET more == picked \o ShowcaseOne(found_photos, Head(keys))
         IN IF Len(more) >= limit THEN more
            ELSE Showcase(Tail(keys), found_photos, more, limit)

\* max_showcase = 0 stands for None; the caption of a photo is a function of its name
\* and is left out of the returned records
_pick_product_photos(found_photos, requested_color, max_showcase) ==
    LET limit == IF max_showcase # 0 THEN max_showcase ELSE MAX_PHOTOS_PRODUCT_SHOWCASE
        keys == FirstKeys(found_photos, {})
    IN IF requested_color # ""
       THEN LET source == _dedupe_photos(MatchingColor(found_photos, requested_color))
            IN SubSeq(source, 1, Min(Len(source), limit))
       ELSE IF Len(keys) > 1
            THEN _dedupe_photos(Showcase(keys, found_photos, <<>>, limit))
            ELSE _dedupe_photos(select_photos_with_color_variety(found_photos, limit, 1))

VarietyInputs == [images : SubLists(VarietyPool), max_total : {6}, max_per_color : {1, 2}]

PickInputs ==
    [found_photos : SubLists(ShowcasePool) \cup SubLists(SubSeq(VarietyPool, 1, 4)),
     requested_color : {"", "chernye"}, max_showcase : {0, 10}]

MapInit == f_fn = "none" /\ f_in = "" /\ f_out = {}

MapOnly == UNCHANGED <<aggVars, mergeVars, turnVars, replyVars, photoVars, nudgeVars, handoffVars>>

Tokenized ==
    /\ f_fn = "none"
    /\ \E text \in TokenTexts :
        /\ f_fn' = "_tokenize" /\ f_in' = text /\ f_out' = _tokenize(text)
    /\ MapOnly

VarietySelected ==
    /\ f_fn = "none"
    /\ \E x \in VarietyInputs :
        /\ f_fn' = "select_photos_with_color_variety" /\ f_in' = x
        /\ f_out' = select_photos_with_color_variety(x.images, x.max_total, x.max_per_color)
    /\ MapOnly

PhotosPicked ==
    /\ f_fn = "none"
    /\ \E x \in PickInputs :
        /\ f_fn' = "_pick_product_photos" /\ f_in' = x
        /\ f_out' = _pick_product_photos(x.found_photos, x.requested_color, x.max_showcase)
    /\ MapOnly

\* the caller has the result; the next call starts from nothing
CallReturned ==
    /\ f_fn # "none"
    /\ f_fn' = "none" /\ f_in' = "" /\ f_out' = {}
    /\ MapOnly

----------------------------------------------------------------------------
(* scheduler/nudge_rules.py, scheduler/nudge_scheduler.py, db/conversations.py: *)
(* the follow-up nudges of one conversation                                    *)

MAX_NUDGE_COUNT == 2

\* NUDGE_MESSAGES.get(nudge_count, ""): there is a text for the first and the second nudge
get_nudge_message(nudge_count) == IF nudge_count \in {1, 2} THEN "nudge" ELSE ""

\* calculate_next_nudge_time is None from the second nudge on; before that it is a time,
\* and due says that now has reached it
NextNudgeTimeReached(nudge_count, due) == nudge_count < MAX_NUDGE_COUNT /\ due

should_nudge_client_any_handoff(last_client_message_at, last_bot_message_at, nudge_count, handoff_enabled, work_hours, due) ==
    IF nudge_count >= MAX_NUDGE_COUNT THEN FALSE
    ELSE IF last_client_message_at >= last_bot_message_at THEN FALSE
    ELSE IF ~work_hours THEN FALSE
    ELSE NextNudgeTimeReached(nudge_count, due)

\* work_hours is is_work_hours(datetime.now())
should_nudge_client(last_client_message_at, last_bot_message_at, nudge_count, handoff_enabled, work_hours, due) ==
    IF handoff_enabled THEN FALSE
    ELSE IF nudge_count >= MAX_NUDGE_COUNT THEN FALSE
    ELSE IF last_client_message_at >= last_bot_message_at THEN FALSE
    ELSE IF ~work_hours THEN FALSE
    ELSE NextNudgeTimeReached(nudge_count, due)

\* the rows of the conversation that get_clients_for_nudge selects: the clients row
\* joined with handoff_state, when nudge_count < 2 (no caller of stop_nudging exists,
\* so nudge_state is never 'stopped')
get_clients_for_nudge ==
    IF n_count < 2
    THEN <<[last_client_message_at |-> n_last_client, last_bot_message_at |-> n_last_bot,
            nudge_count |-> n_count, handoff_enabled |-> n_handoff]>>
    ELSE <<>>

\* the first user message created the clients row: last_bot_message_at defaults to
\* CURRENT_TIMESTAMP, the same second as last_client_message_at
NudgeInit ==
    /\ n_handoff = FALSE /\ n_count = 0 /\ n_last_client = 0 /\ n_last_bot = 0
    /\ n_clock = 0 /\ n_since = 0 /\ n_last = "none"

NudgeOnly ==
    UNCHANGED <<aggVars, mergeVars, turnVars, replyVars, photoVars, mapVars, handoffVars>>

\* CURRENT_TIMESTAMP of a statement: the second of the last one, or a later one
Stamps == {t \in {n_clock, n_clock + 1} : t <= MaxClock}

\* handle_message while the manager has the conversation: the message is saved and
\* update_last_client_message runs; the nudge counter is left alone
ClientWritesToManager ==
    /\ n_handoff
    /\ \E now \in Stamps :
        /\ n_clock' = now /\ n_last_client' = now
    /\ n_since' = 0 /\ n_last' = "none"
    /\ UNCHANGED <<n_handoff, n_count, n_last_bot>>
    /\ NudgeOnly

\* generate_response: save_message(user), then reset_nudge_state
ClientWritesToBot ==
    /\ ~n_handoff
    /\ \E now \in Stamps :
        /\ n_clock' = now /\ n_last_client' = now
    /\ n_count' = 0 /\ n_since' = 0 /\ n_last' = "none"
    /\ UNCHANGED <<n_handoff, n_last_bot>>
    /\ NudgeOnly

\* save_message(assistant) of the turn that answers the client's last message
BotReplies ==
    /\ n_last_client >= n_last_bot
    /\ \E now \in Stamps :
        /\ n_clock' = now /\ n_last_bot' = now
    /\ n_last' = "none"
    /\ UNCHANGED <<n_handoff, n_count, n_last_client, n_since>>
    /\ NudgeOnly

\* set_handoff_state(chat_id, enabled)
SetHandoff ==
    /\ n_handoff' = ~n_handoff
    /\ n_last' = "none"
    /\ UNCHANGED <<n_count, n_last_client, n_last_bot, n_clock, n_since>>
    /\ NudgeOnly

\* _process_client_nudge decides to send and send_text succeeds
WouldNudge(client, work_hours, due) ==
    /\ should_nudge_client(client.last_client_message_at, client.last_bot_message_at,
                           client.nudge_count, client.handoff_enabled, work_hours, due)
    /\ get_nudge_message(client.nudge_count + 1) # ""

\* one pass of check_and_send_nudges that sends the nudge and runs mark_nudge_sent
NudgeSent ==
    /\ get_clients_for_nudge # <<>>
    /\ \E client \in {get_clients_for_nudge[1]} :
       \E work_hours \in BOOLEAN, due \in BOOLEAN, now \in Stamps :
        /\ WouldNudge(client, work_hours, due)
        /\ n_count' = client.nudge_count + 1
        /\ n_last_bot' = now /\ n_clock' = now
    /\ n_since' = n_since + 1 /\ n_last' = "sent"
    /\ UNCHANGED <<n_handoff, n_last_client>>
    /\ NudgeOnly

\* one pass of check_and_send_nudges that sends nothing: no row, a refusal of
\* should_nudge_client, or a send_text that raises
NudgeSkipped ==
    /\ \E work_hours \in BOOLEAN, due \in BOOLEAN, send_ok \in BOOLEAN :
        \/ get_clients_for_nudge = <<>>
        \/ /\ get_clients_for_nudge # <<>>
           /\ ~WouldNudge(get_clients_for_nudge[1], work_hours, due) \/ ~send_ok
    /\ n_last' = "skipped"
    /\ UNCHANGED <<n_handoff, n_count, n_last_client, n_last_bot, n_clock, n_since>>
    /\ NudgeOnly

----------------------------------------------------------------------------
(* ai/engine.py, greenapi/webhook.py: handoff to the manager and the replies of one *)
(* client conversation                                                             *)

\* what has happened for a message so far
NoOutcome ==
    [handoff |-> FALSE, saved |-> FALSE, generated |-> FALSE, texts |-> 0, photos |-> 0,
     apology |-> FALSE]

\* nothing of a reply is left to send
NothingLeft == [parts |-> 0, photos |-> FALSE, follow_up |-> FALSE]

\* what generate_response can return for handle_message to send: the parts of the text,
\* photos to send or not, and with photos the last part kept for after them or not
Replies ==
    {r \in [parts : 1..MaxParts, photos : BOOLEAN, follow_up : BOOLEAN] :
        r.follow_up => r.photos}

HandoffInit ==
    /\ h_enabled = FALSE /\ h_pc = "idle" /\ h_left = NothingLeft /\ h_out = NoOutcome
    /\ h_handled = 0

HandoffOnly ==
    UNCHANGED <<aggVars, mergeVars, turnVars, replyVars, photoVars, mapVars, nudgeVars>>

get_handoff_state_off == FALSE
\* get_handoff_state(chat_id) of the client's chat
get_handoff_state == h_enabled

\* handle_message finds handoff enabled: save_message, update_last_client_message, return
MessageSkipped ==
    /\ h_pc = "idle" /\ h_handled < MaxHandled
    /\ get_handoff_state
    /\ h_out' = [NoOutcome EXCEPT !.handoff = h_enabled, !.saved = TRUE]
    /\ h_handled' = h_handled + 1
    /\ UNCHANGED <<h_enabled, h_pc, h_left>>
    /\ HandoffOnly

\* a database call of that path raises: the except branch of handle_message alerts
\* and sends the apology
SkipFails ==
    /\ h_pc = "idle" /\ h_handled < MaxHandled
    /\ h_enabled
    /\ h_out' = [NoOutcome EXCEPT !.handoff = h_enabled, !.apology = TRUE]
    /\ h_handled' = h_handled + 1
    /\ UNCHANGED <<h_enabled, h_pc, h_left>>
    /\ HandoffOnly

\* handle_message finds handoff disabled and calls generate_response
TurnStarted ==
    /\ h_pc = "idle" /\ h_handled < MaxHandled
    /\ ~get_handoff_state
    /\ h_pc' = "generating"
    /\ h_out' = [NoOutcome EXCEPT !.handoff = h_enabled]
    /\ h_handled' = h_handled + 1
    /\ UNCHANGED <<h_enabled, h_left>>
    /\ HandoffOnly

\* generate_response saved the message and returned a reply
ReplyGenerated ==
    /\ h_pc = "generating"
    /\ \E r \in Replies : h_left' = r
    /\ h_pc' = "sending"
    /\ h_out' = [h_out EXCEPT !.saved = TRUE, !.generated = TRUE]
    /\ UNCHANGED <<h_enabled, h_handled>>
    /\ HandoffOnly

\* generate_response raises after saving the message: the apology is sent
TurnRaised ==
    /\ h_pc = "generating"
    /\ h_pc' = "idle"
    /\ h_out' = [h_out EXCEPT !.saved = TRUE, !.apology = TRUE]
    /\ UNCHANGED <<h_enabled, h_left, h_handled>>
    /\ HandoffOnly

\* send_text of the next part of the reply
TextSent ==
    /\ h_pc = "sending" /\ h_left.parts > 0
    /\ h_left' = [h_left EXCEPT !.parts = @ - 1]
    /\ h_out' = [h_out EXCEPT !.texts = @ + 1]
    /\ UNCHANGED <<h_enabled, h_pc, h_handled>>
    /\ HandoffOnly

\* send_multiple_images, after the parts that go before the photos
ImagesSent ==
    /\ h_pc = "sending" /\ h_left.parts = 0 /\ h_left.photos
    /\ h_left' = [h_left EXCEPT !.photos = FALSE]
    /\ h_out' = [h_out EXCEPT !.photos = @ + 1]
    /\ UNCHANGED <<h_enabled, h_pc, h_handled>>
    /\ HandoffOnly

\* send_text of the question kept for after the photos
FollowUpSent ==
    /\ h_pc = "sending" /\ h_left.parts = 0 /\ ~h_left.photos /\ h_left.follow_up
    /\ h_left' = [h_left EXCEPT !.follow_up = FALSE]
    /\ h_out' = [h_out EXCEPT !.texts = @ + 1]
    /\ UNCHANGED <<h_enabled, h_pc, h_handled>>
    /\ HandoffOnly

\* handle_message returns
MessageHandled ==
    /\ h_pc = "sending" /\ h_left = NothingLeft
    /\ h_pc' = "idle"
    /\ UNCHANGED <<h_enabled, h_left, h_out, h_handled>>
    /\ HandoffOnly

\* _handle_outgoing_message: what the manager did in the client's chat
OutgoingKinds == {"reaction", "/bot on", "/bot off", "message"}

\* a reaction or "/bot on" disables handoff; "/bot off" or any other message enables it
OutgoingMessage ==
    /\ \E kind \in OutgoingKinds :
        h_enabled' = (kind \in {"/bot off", "message"})
    /\ UNCHANGED <<h_pc, h_left, h_out, h_handled>>
    /\ HandoffOnly

\* handle_message of the manager's chat: "/handoff on <client>" or "/handoff off <client>"
HandoffCommand ==
    /\ \E action \in {"on", "off"} :
        h_enabled' = (action = "on")
    /\ UNCHANGED <<h_pc, h_left, h_out, h_handled>>
    /\ HandoffOnly

----------------------------------------------------------------------------
(* greenapi/webhook.py: message aggregation and the per-chat lock *)

Chats == {"c1", "mgr"}
MANAGER_CHAT_IDS == {"mgr"}
Senders == {"Alice", "Bob"}
ClientTexts == {"a", "b"}
ManagerTexts == {"/Bot on", "a"}
TextsOf(c) == IF c \in MANAGER_CHAT_IDS THEN ManagerTexts ELSE ClientTexts

_is_manager_command_exact(chat_id, text) ==
    /\ chat_id \in MANAGER_CHAT_IDS
    /\ StartsWith(text, "/handoff") \/ StartsWith(text, "/bot ")

_is_manager_command(chat_id, text) ==
    /\ chat_id \in MANAGER_CHAT_IDS
    /\ LET t == Lower(Strip(text))
       IN StartsWith(t, "/handoff") \/ StartsWith(t, "/bot ")

\* async with _chat_locks[chat_id]: the lock is taken at once when it is free
\* and nobody waits for it
CanAcquireNoLock(c) == TRUE
CanAcquire(c) == ~locked[c] /\ waiters[c] = <<>>

\* _buffer_timers[chat_id].cancel(): a cancelled task never runs _flush_buffer
CancelTimerNoop(ts, id) == ts
CancelTimer(ts, id) == {t \in ts : t.id # id}

\* asyncio.create_task(_flush_after_delay(chat_id)): a new task starts its sleep
StartTimerForgotten(ts, id) == ts
StartTimer(ts, id) == ts \cup {[id |-> id, left |-> Delay]}

\* _execute_handler(chat_id, sender_name, text), up to the handler's first await
ExecuteHandler(c, call) ==
    /\ chat_locks' = chat_locks \cup {c}
    /\ calls' = [calls EXCEPT ![c] = Append(@, call)]
    /\ IF CanAcquire(c)
       THEN /\ locked' = [locked EXCEPT ![c] = TRUE]
            /\ active' = [active EXCEPT ![c] = @ + 1]
            /\ UNCHANGED waiters
       ELSE /\ waiters' = [waiters EXCEPT ![c] = Append(@, call)]
            /\ UNCHANGED <<locked, active>>

\* the controller leaves everything else alone
AggOnly == UNCHANGED <<mergeVars, turnVars, replyVars, photoVars, extraVars>>

\* process_incoming_message: a manager command bypasses the buffer
DeliverCommand(c, s, t) ==
    /\ AggOnly
    /\ UNCHANGED outcomes
    /\ nmsgs < MaxMsgs
    /\ _is_manager_command(c, t)
    /\ nmsgs' = nmsgs + 1
    /\ ExecuteHandler(c, [sender |-> s, text |-> t, n |-> 1, via |-> "command"])
    /\ UNCHANGED <<aggregation, message_buffers, buffer_sender, buffer_timers, timers,
                   arrivals, sinceLast>>

\* process_incoming_message: aggregation disabled, the message is handled at once
DeliverDirect(c, s, t) ==
    /\ AggOnly
    /\ UNCHANGED outcomes
    /\ nmsgs < MaxMsgs
    /\ ~_is_manager_command(c, t)
    /\ ~aggregation
    /\ nmsgs' = nmsgs + 1
    /\ ExecuteHandler(c, [sender |-> s, text |-> t, n |-> 1, via |-> "direct"])
    /\ UNCHANGED <<aggregation, message_buffers, buffer_sender, buffer_timers, timers,
                   arrivals, sinceLast>>

\* process_incoming_message: the message is buffered and the timer restarted
DeliverBuffered(c, s, t) ==
    /\ AggOnly
    /\ UNCHANGED outcomes
    /\ nmsgs < MaxMsgs
    /\ ~_is_manager_command(c, t)
    /\ aggregation
    /\ nmsgs' = nmsgs + 1
    /\ message_buffers' = [message_buffers EXCEPT ![c] = Append(@, t)]
    /\ buffer_sender' = [buffer_sender EXCEPT ![c] = IF message_buffers[c] = <<>> THEN s ELSE @]
    /\ arrivals' = [arrivals EXCEPT ![c] = Append(@, [sender |-> s, text |-> t, gap |-> sinceLast[c]])]
    /\ sinceLast' = [sinceLast EXCEPT ![c] = 0]
    /\ LET id == Len(arrivals[c]) + 1
           live == IF buffer_timers[c] # 0 THEN CancelTimer(timers[c], buffer_timers[c])
                   ELSE timers[c]
       IN /\ timers' = [timers EXCEPT ![c] = StartTimer(live, id)]
          /\ buffer_timers' = [buffer_timers EXCEPT ![c] = id]
    /\ UNCHANGED <<aggregation, chat_locks, locked, waiters, active, calls>>

\* one unit of time passes for every sleeping timer
Tick ==
    /\ AggOnly
    /\ UNCHANGED outcomes
    /\ \E c \in Chats : timers[c] # {} \/ (arrivals[c] # <<>> /\ sinceLast[c] < Delay)
    /\ timers' = [c \in Chats |-> {[id |-> t.id, left |-> Max(t.left - 1, 0)] : t \in timers[c]}]
    /\ sinceLast' = [c \in Chats |-> Min(sinceLast[c] + 1, Delay)]
    /\ UNCHANGED <<aggregation, message_buffers, buffer_sender, buffer_timers, chat_locks,
                   locked, waiters, active, calls, arrivals, nmsgs>>

\* _flush_after_delay: the sleep is over, _flush_buffer runs
TimerFires(c) ==
    \E t \in timers[c] :
        /\ AggOnly
        /\ UNCHANGED outcomes
        /\ t.left = 0
        /\ timers' = [timers EXCEPT ![c] = @ \ {t}]
        /\ message_buffers' = [message_buffers EXCEPT ![c] = <<>>]
        /\ buffer_sender' = [buffer_sender EXCEPT ![c] = ""]
        /\ buffer_timers' = [buffer_timers EXCEPT ![c] = 0]
        /\ IF message_buffers[c] = <<>>
           THEN UNCHANGED <<chat_locks, locked, waiters, active, calls>>
           ELSE ExecuteHandler(c, [sender |-> buffer_sender[c],
                                   text |-> JoinNL(message_buffers[c]),
                                   n |-> Len(message_buffers[c]),
                                   via |-> "flush"])
        /\ UNCHANGED <<aggregation, arrivals, sinceLast, nmsgs>>

\* asyncio.Lock: the first waiter gets the released lock and its handler starts
LockGranted(c) ==
    /\ AggOnly
    /\ UNCHANGED outcomes
    /\ ~locked[c]
    /\ waiters[c] # <<>>
    /\ locked' = [locked EXCEPT ![c] = TRUE]
    /\ waiters' = [waiters EXCEPT ![c] = Tail(@)]
    /\ active' = [active EXCEPT ![c] = @ + 1]
    /\ UNCHANGED <<aggregation, message_buffers, buffer_sender, buffer_timers, timers,
                   chat_locks, calls, arrivals, sinceLast, nmsgs>>

\* async with _chat_locks[chat_id]: leaving the block releases the lock,
\* whether the body returned or an exception was caught in it
LockAfterHandlerHeld(lk, c) == lk
LockAfterHandler(lk, c) == [lk EXCEPT ![c] = FALSE]

\* the running call of a conversation: the lock is granted in FIFO order
RunningCall(c) == calls[c][outcomes[c].finished + 1]

\* the inputs on which processing the turn raises (a choice of the environment)
TurnRaises(call) == Contains(call.text, "b")

\* what the except blocks do (handle_message's own, and _execute_handler's for
\* a handler that lets the exception out): logger.error, notify_error(...),
\* then send_text(chat_id, apology) inside its own try
AfterError(o) ==
    [finished |-> o.finished + 1, alerts |-> o.alerts + 1, apologies |-> o.apologies + 1]
AfterReturn(o) == [o EXCEPT !.finished = @ + 1]
NoOutcomes == [finished |-> 0, alerts |-> 0, apologies |-> 0]

\* the handler returns and the lock is released
HandlerReturns(c) ==
    /\ AggOnly
    /\ active[c] > 0
    /\ ~TurnRaises(RunningCall(c))
    /\ active' = [active EXCEPT ![c] = @ - 1]
    /\ locked' = LockAfterHandler(locked, c)
    /\ outcomes' = [outcomes EXCEPT ![c] = AfterReturn(@)]
    /\ UNCHANGED <<aggregation, message_buffers, buffer_sender, buffer_timers, timers,
                   chat_locks, waiters, calls, arrivals, sinceLast, nmsgs>>

\* processing the turn raises: the exception is caught, the alert requested,
\* the apology sent, and the lock released
HandlerRaises(c) ==
    /\ AggOnly
    /\ active[c] > 0
    /\ TurnRaises(RunningCall(c))
    /\ active' = [active EXCEPT ![c] = @ - 1]
    /\ locked' = LockAfterHandler(locked, c)
    /\ outcomes' = [outcomes EXCEPT ![c] = AfterError(@)]
    /\ UNCHANGED <<aggregation, message_buffers, buffer_sender, buffer_timers, timers,
                   chat_locks, waiters, calls, arrivals, sinceLast, nmsgs>>

AggInit ==
    /\ aggregation \in BOOLEAN
    /\ message_buffers = [c \in Chats |-> <<>>]
    /\ buffer_sender = [c \in Chats |-> ""]
    /\ buffer_timers = [c \in Chats |-> 0]
    /\ timers = [c \in Chats |-> {}]
    /\ chat_locks = {}
    /\ locked = [c \in Chats |-> FALSE]
    /\ waiters = [c \in Chats |-> <<>>]
    /\ active = [c \in Chats |-> 0]
    /\ calls = [c \in Chats |-> <<>>]
    /\ arrivals = [c \in Chats |-> <<>>]
    /\ sinceLast = [c \in Chats |-> Delay]
    /\ nmsgs = 0
    /\ outcomes = [c \in Chats |-> NoOutcomes]

ExtraIdle == MapInit /\ NudgeInit /\ HandoffInit

Init == AggInit /\ MergeIdle /\ TurnInit /\ ReplyInit /\ PhotoInit /\ ExtraIdle

Next ==
    \/ \E c \in Chats, s \in Senders : \E t \in TextsOf(c) : DeliverCommand(c, s, t)
    \/ \E c \in Chats, s \in Senders : \E t \in TextsOf(c) : DeliverDirect(c, s, t)
    \/ \E c \in Chats, s \in Senders : \E t \in TextsOf(c) : DeliverBuffered(c, s, t)
    \/ Tick
    \/ \E c \in Chats : TimerFires(c)
    \/ \E c \in Chats : LockGranted(c)
    \/ \E c \in Chats : HandlerReturns(c)
    \/ \E c \in Chats : HandlerRaises(c)

Spec == Init /\ [][Next]_vars

AggIdle ==
    /\ aggregation = FALSE
    /\ message_buffers = [c \in Chats |-> <<>>]
    /\ buffer_sender = [c \in Chats |-> ""]
    /\ buffer_timers = [c \in Chats |-> 0]
    /\ timers = [c \in Chats |-> {}]
    /\ chat_locks = {}
    /\ locked = [c \in Chats |-> FALSE]
    /\ waiters = [c \in Chats |-> <<>>]
    /\ active = [c \in Chats |-> 0]
    /\ calls = [c \in Chats |-> <<>>]
    /\ arrivals = [c \in Chats |-> <<>>]
    /\ sinceLast = [c \in Chats |-> Delay]
    /\ nmsgs = 0
    /\ outcomes = [c \in Chats |-> NoOutcomes]

InitMerge == MergeInit /\ AggIdle /\ TurnInit /\ ReplyInit /\ PhotoInit /\ ExtraIdle

NextMerge ==
    \/ ListStored
    \/ \E u \in UpdateCtxs : Merge(u)
    \/ ListMerged

\* the controller with aggregation enabled, under the scheduling asyncio
\* guarantees: time passes, a task whose sleep is over runs, a released lock goes
\* to its first waiter, and a handler that runs comes to an end
InitLive == Init /\ aggregation

NextLive ==
    \/ \E c \in Chats, s \in Senders : \E t \in TextsOf(c) :
          nmsgs < MaxLiveMsgs /\ DeliverCommand(c, s, t)
    \/ \E c \in Chats, s \in Senders : \E t \in TextsOf(c) :
          nmsgs < MaxLiveMsgs /\ DeliverBuffered(c, s, t)
    \/ Tick
    \/ \E c \in Chats : TimerFires(c)
    \/ \E c \in Chats : LockGranted(c)
    \/ \E c \in Chats : HandlerReturns(c)
    \/ \E c \in Chats : HandlerRaises(c)

Fairness ==
    /\ WF_vars(Tick)
    /\ \A c \in Chats : WF_vars(TimerFires(c))
    /\ \A c \in Chats : WF_vars(LockGranted(c))
    /\ \A c \in Chats : WF_vars(HandlerReturns(c))
    /\ \A c \in Chats : WF_vars(HandlerRaises(c))

SpecLive == InitLive /\ [][NextLive]_vars /\ Fairness

SpecMerge == InitMerge /\ [][NextMerge]_vars

InitTurn == TurnInit /\ AggIdle /\ MergeIdle /\ ReplyInit /\ PhotoInit /\ ExtraIdle

NextTurn ==
    \/ \E in \in TurnInputs : TurnConfirmed(in)
    \/ \E in \in TurnInputs : TurnPreorderOffer(in)
    \/ \E in \in TurnInputs : TurnSummary(in)
    \/ \E in \in TurnInputs : TurnAnswer(in)
    \/ \E in \in TurnInputs : TurnFails(in)
    \/ TurnReturned

SpecTurn == InitTurn /\ [][NextTurn]_vars

InitReply == ReplyInit /\ AggIdle /\ MergeIdle /\ TurnInit /\ PhotoInit /\ ExtraIdle

NextReply ==
    \/ \E in \in ReplyInputs : ReplyWhileMissing(in)
    \/ \E in \in ReplyInputs : ReplyWhenComplete(in)
    \/ ReplySent

SpecReply == InitReply /\ [][NextReply]_vars

InitPhoto == PhotoInit /\ AggIdle /\ MergeIdle /\ TurnInit /\ ReplyInit /\ ExtraIdle

NextPhoto ==
    \/ PhotosWhenAnswering
    \/ PhotosOtherwise
    \/ PhotosSent

SpecPhoto == InitPhoto /\ [][NextPhoto]_vars

InitMap ==
    /\ MapInit /\ AggIdle /\ MergeIdle /\ TurnInit /\ ReplyInit /\ PhotoInit /\ NudgeInit
    /\ HandoffInit

NextMap ==
    \/ Tokenized
    \/ VarietySelected
    \/ PhotosPicked
    \/ CallReturned

SpecMap == InitMap /\ [][NextMap]_vars

InitNudge ==
    /\ NudgeInit /\ AggIdle /\ MergeIdle /\ TurnInit /\ ReplyInit /\ PhotoInit /\ MapInit
    /\ HandoffInit

NextNudge ==
    \/ ClientWritesToManager
    \/ ClientWritesToBot
    \/ BotReplies
    \/ SetHandoff
    \/ NudgeSent
    \/ NudgeSkipped

SpecNudge == InitNudge /\ [][NextNudge]_vars

InitHandoff ==
    /\ HandoffInit /\ AggIdle /\ MergeIdle /\ TurnInit /\ ReplyInit /\ PhotoInit /\ MapInit
    /\ NudgeInit

NextHandoff ==
    \/ MessageSkipped
    \/ SkipFails
    \/ TurnStarted
    \/ ReplyGenerated
    \/ TurnRaised
    \/ TextSent
    \/ ImagesSent
    \/ FollowUpSent
    \/ MessageHandled
    \/ OutgoingMessage
    \/ HandoffCommand

SpecHandoff == InitHandoff /\ [][NextHandoff]_vars

----------------------------------------------------------------------------
(* Claims about the concurrency controller *)

FlushCalls(c) == SelectSeq(calls[c], LAMBDA x : x.via = "flush")

RECURSIVE SumN(_)
SumN(cs) == IF cs = <<>> THEN 0 ELSE cs[1].n + SumN(Tail(cs))

\* C1: at most one handler execution is in progress for a conversation at any
\* time, whichever path (flush, manager command, aggregation disabled) started it.
C1_OneHandlerPerChat == \A c \in Chats : active[c] <= 1

\* a handler runs while another call of the same conversation waits for the lock
C1_Witness == \E c \in Chats : active[c] = 1 /\ locked[c] /\ waiters[c] # <<>>

\* C2: the buffered messages of a conversation are handed to the handler burst by
\* burst: every flush call carries the texts that arrived since the previous
\* flush, newline-joined in arrival order, with the sender of the first of them,
\* and two messages less than the aggregation delay apart are never split
\* between two calls.
C2_BurstOneCall ==
    \A c \in Chats :
        LET fc == FlushCalls(c)
        IN /\ SumN(fc) + Len(message_buffers[c]) = Len(arrivals[c])
           /\ \A k \in 1..Len(fc) :
                LET off == SumN(SubSeq(fc, 1, k - 1))
                    burst == SubSeq(arrivals[c], off + 1, off + fc[k].n)
                IN /\ fc[k].n >= 1
                   /\ fc[k].text = JoinNL([i \in 1..Len(burst) |-> burst[i].text])
                   /\ fc[k].sender = burst[1].sender
           /\ \A i \in 2..Len(arrivals[c]) :
                arrivals[c][i].gap < Delay
                    => ~\E k \in 1..Len(fc) : SumN(SubSeq(fc, 1, k)) = i - 1

\* a burst of three messages from two senders went to the handler in one call
C2_Witness ==
    \E c \in Chats :
        /\ Len(FlushCalls(c)) = 1
        /\ FlushCalls(c)[1].n = 3
        /\ arrivals[c][1].sender # arrivals[c][2].sender
        /\ arrivals[c][1].text # arrivals[c][3].text
        /\ arrivals[c][2].gap < Delay /\ arrivals[c][3].gap < Delay

FinishedCalls(c) == SubSeq(calls[c], 1, outcomes[c].finished)

FailedCalls(c) == SelectSeq(FinishedCalls(c), TurnRaises)

\* C11: an exception raised while a turn is processed is caught inside the
\* per-conversation lock: every turn that raised requested one operator alert
\* and sent one apology, the lock is held exactly while a handler of the
\* conversation runs (so it is released after a failure), and no requested
\* call is lost: each one has finished, is running, or waits for the lock.
C11_ErrorContained ==
    \A c \in Chats :
        /\ locked[c] <=> active[c] = 1
        /\ outcomes[c].finished + active[c] + Len(waiters[c]) = Len(calls[c])
        /\ outcomes[c].alerts = Len(FailedCalls(c))
        /\ outcomes[c].apologies = Len(FailedCalls(c))

\* the first turn of a conversation raised and was answered with the apology,
\* and the next message of the conversation was processed normally
C11_Witness ==
    \E c \in Chats :
        /\ outcomes[c].finished = 2
        /\ TurnRaises(calls[c][1]) /\ ~TurnRaises(calls[c][2])
        /\ outcomes[c].apologies = 1 /\ outcomes[c].alerts = 1
        /\ ~locked[c] /\ active[c] = 0

\* C13: a conversation has at most one pending flush timer, the one registered
\* in _buffer_timers; it exists exactly while the buffer is non-empty, and what
\* is left of its sleep is the aggregation delay minus the time since the
\* conversation's last message, so it cannot flush before a full delay of silence.
C13_OnePendingTimer ==
    \A c \in Chats :
        /\ Cardinality(timers[c]) <= 1
        /\ timers[c] = {} <=> message_buffers[c] = <<>>
        /\ \A t \in timers[c] :
              /\ t.id = buffer_timers[c]
              /\ t.id = Len(arrivals[c])
              /\ t.left = Delay - sinceLast[c]

\* a second message came before the first one's timer ended: that timer was
\* cancelled, and the only pending timer is the second one, part of the way through
C13_Witness ==
    \E c \in Chats :
        /\ Len(arrivals[c]) = 2
        /\ arrivals[c][2].gap = 1
        /\ Len(message_buffers[c]) = 2
        /\ timers[c] = {[id |-> 2, left |-> 1]}
        /\ FlushCalls(c) = <<>>

\* C14: every buffered message is eventually handed to the handler in a flush
\* call of its own conversation, and every requested call eventually finishes,
\* whatever arrives in the other conversation.
C14_EventuallyProcessed ==
    \A c \in Chats :
        /\ \A n \in 1..MaxLiveMsgs :
              (Len(arrivals[c]) >= n) ~> (SumN(FlushCalls(c)) >= n)
        /\ \A k \in 1..MaxLiveMsgs :
              (Len(calls[c]) >= k) ~> (outcomes[c].finished >= k)

\* a single buffered message of each of the two conversations was flushed in a
\* call of its own, and both calls have finished
C14_Witness ==
    \A c \in Chats :
        /\ Len(arrivals[c]) = 1
        /\ Len(FlushCalls(c)) = 1
        /\ FlushCalls(c)[1].text = arrivals[c][1].text
        /\ outcomes[c].finished = 1

\* the text starts with /handoff or /bot , whatever its case and leading blanks
StartsAsCommand(text) ==
    \E prefix \in {"/handoff", "/bot "} : StartsWith(Lower(Strip(text)), prefix)

\* the call the step added to the calls of c
NewCall(c) == calls[c]'[Len(calls[c]') ]

\* C25: a manager command is never added to a buffer; it goes to the handler in
\* the step that delivers it, as a call of its own, and neither that step nor
\* the end of a handler changes any conversation's buffered messages or timer.
C25_ManagerCommand ==
    [][\A c \in Chats :
          /\ \A i \in 1..Len(arrivals[c]') :
                ~(c \in MANAGER_CHAT_IDS /\ StartsAsCommand(arrivals[c]'[i].text))
          /\ (/\ Len(calls[c]') > Len(calls[c])
              /\ c \in MANAGER_CHAT_IDS
              /\ StartsAsCommand(NewCall(c).text))
                => /\ nmsgs' = nmsgs + 1
                   /\ NewCall(c).n = 1
                   /\ UNCHANGED <<message_buffers, buffer_sender, buffer_timers, timers>>
          /\ outcomes[c]'.finished > outcomes[c].finished
                => UNCHANGED <<message_buffers, buffer_sender, buffer_timers, timers>>]_vars

\* the manager's command went to the handler, and has been handled, while a
\* message of the manager and a message of the client sit in their buffers
C25_Witness ==
    /\ Len(calls["mgr"]) = 1
    /\ StartsAsCommand(calls["mgr"][1].text)
    /\ outcomes["mgr"].finished = 1
    /\ message_buffers["mgr"] = <<"a">>
    /\ message_buffers["c1"] # <<>>
    /\ timers["mgr"] # {} /\ timers["c1"] # {}

\* C27: a message that arrives while a handler of its conversation runs leaves
\* that handler, the lock and the queue alone; it is appended to the buffer (a new
\* one, with its sender, if the buffer was flushed) and a full-length timer is
\* started for it; a call requested while a handler runs waits for the lock, and
\* a handler starts only when none of its conversation is running.
C27_InFlightUntouched ==
    [][\A c \in Chats :
          /\ (active[c] > 0 /\ Len(arrivals[c]') > Len(arrivals[c]))
                => /\ UNCHANGED <<active, locked, waiters, calls, outcomes>>
                   /\ message_buffers[c]'
                        = Append(message_buffers[c], arrivals[c]'[Len(arrivals[c]')].text)
                   /\ (message_buffers[c] = <<>>
                         => buffer_sender[c]' = arrivals[c]'[Len(arrivals[c]')].sender)
                   /\ timers[c]' = {[id |-> buffer_timers[c]', left |-> Delay]}
          /\ (active[c] > 0 /\ Len(calls[c]') > Len(calls[c]))
                => /\ active[c]' = active[c]
                   /\ outcomes[c]' = outcomes[c]
                   /\ waiters[c]' = Append(waiters[c], NewCall(c))
          /\ active[c]' > active[c] => active[c] = 0 /\ ~locked[c]]_vars

\* the first batch is still being processed; a message that arrived meanwhile
\* was flushed into a second call, which waits for the lock
C27_Witness ==
    \E c \in Chats :
        /\ Len(FlushCalls(c)) = 2
        /\ active[c] = 1
        /\ outcomes[c].finished = 0
        /\ Len(waiters[c]) = 1
        /\ waiters[c][1] = calls[c][2]

----------------------------------------------------------------------------
(* Claims about the pure order-context functions *)

FieldIndex(f) == CHOOSE i \in 1..Len(Fields) : Fields[i] = f

\* C4: the missing-fields list is ordered city, product, size, color, address;
\* address is listed only when city and product are set, the size is set if the
\* product type needs one and the colour is set if it is required, and then
\* address is the only entry.
C4_MissingOrdered ==
    m_phase = "listed" =>
        /\ \A i \in 1..Len(m_missing) : \E k \in 1..Len(Fields) : Fields[k] = m_missing[i]
        /\ \A i, j \in 1..Len(m_missing) :
                i < j => FieldIndex(m_missing[i]) < FieldIndex(m_missing[j])
        /\ (\E i \in 1..Len(m_missing) : m_missing[i] = "address") =>
                /\ m_of.city # "" /\ m_of.product # ""
                /\ (m_of.product_type \in SIZE_REQUIRED_TYPES => m_of.size # "")
                /\ (m_color_required => m_of.color # "")
                /\ m_missing = <<"address">>

\* shoes with a required colour: everything but the address is there
C4_Witness ==
    /\ m_phase = "listed"
    /\ m_missing = <<"address">>
    /\ m_color_required
    /\ m_of.product_type = "shoes"

\* tokens(A), tokens(B) and "similarity below 0.5" for the stored and the incoming product
C5_A == Strip(m_base.product)
C5_B == Strip(m_updates.product)
C5_Below ==
    2 * Cardinality(tokenize_text(C5_A) \cap tokenize_text(C5_B))
        < Max(Cardinality(tokenize_text(C5_A)), Cardinality(tokenize_text(C5_B)))
C5_Kept(switch) ==
    /\ m_merged.size = IF Strip(m_updates.size) # "" THEN Strip(m_updates.size)
                       ELSE IF switch THEN "" ELSE Strip(m_base.size)
    /\ m_merged.color = IF Strip(m_updates.color) # "" THEN Strip(m_updates.color)
                        ELSE IF switch THEN "" ELSE Strip(m_base.color)
    /\ m_merged.address = IF Strip(m_updates.address) # "" THEN Strip(m_updates.address)
                          ELSE IF switch THEN "" ELSE Strip(m_base.address)

\* C5 as stated: an update with a different product B is accepted, size, colour
\* and address are cleared when the similarity is below 0.5 and kept otherwise,
\* and the city is never cleared.
C5_Original ==
    (m_phase = "merged" /\ C5_A # "" /\ C5_B # "" /\ C5_B # C5_A) =>
        /\ m_merged.product = C5_B
        /\ C5_Kept(C5_Below)
        /\ (Strip(m_base.city) # "" => m_merged.city # "")

\* C5 as amended: the fields are cleared only when, besides, both product names
\* have at least one token.
C5_ProductSwitch ==
    (m_phase = "merged" /\ C5_A # "" /\ C5_B # "" /\ C5_B # C5_A) =>
        /\ m_merged.product = C5_B
        /\ C5_Kept(tokenize_text(C5_A) # {} /\ tokenize_text(C5_B) # {} /\ C5_Below)
        /\ (Strip(m_base.city) # "" => m_merged.city # "")

\* a switch from one model to an unrelated one: size, colour, address cleared, city kept
C5_Witness ==
    /\ m_phase = "merged"
    /\ m_updates = [EmptyCtx EXCEPT !.product = "Chanel Jumbo"]
    /\ m_base.product = "Jimmy Choo Azia 95"
    /\ m_base.size # "" /\ m_base.color # "" /\ m_base.address # "" /\ m_base.city # ""
    /\ m_merged.size = "" /\ m_merged.color = "" /\ m_merged.address = ""
    /\ m_merged.city = "Almaty"

\* C16 as stated: merging an all-empty update returns exactly the sanitized
\* context, product_type included.
C16_Original ==
    (m_phase = "merged" /\ m_updates = EmptyCtx)
        => m_merged = _sanitize_order_context(m_base)

\* C16 as amended: merging an all-empty update returns the sanitized context in
\* city, product, size, color and address; product_type is the sanitized type
\* when there is one, and otherwise the type inferred from the product name.
C16_EmptyUpdate ==
    (m_phase = "merged" /\ m_updates = EmptyCtx) =>
        /\ \A f \in {"city", "product", "size", "color", "address"} :
              m_merged[f] = _sanitize_order_context(m_base)[f]
        /\ m_merged.product_type =
              IF _normalize_product_type(m_base.product_type) # ""
              THEN _normalize_product_type(m_base.product_type)
              ELSE _infer_product_type_from_text(Strip(m_base.product))

\* an all-empty update was merged into a context with a shoe model and no usable
\* type: the merge filled in the type
C16_Witness ==
    /\ m_phase = "merged"
    /\ m_updates = EmptyCtx
    /\ m_base.product = "Jimmy Choo Azia 95"
    /\ m_base.product_type = "unknown"
    /\ m_base.city = " Almaty "
    /\ m_merged.product_type = "shoes"
    /\ m_merged.city = "Almaty"

C17_Switch ==
    /\ Strip(m_base.product) # ""
    /\ Strip(m_updates.product) # ""
    /\ IsProductSwitch(Strip(m_base.product), Strip(m_updates.product))

\* C17: in a merge an empty incoming city keeps the previous city, and an empty
\* incoming size, color or address keeps the previous value unless the same
\* merge detects a product switch, which empties it.
C17_EmptyKeepsPrevious ==
    m_phase = "merged" =>
        /\ Strip(m_updates.city) = "" => m_merged.city = Strip(m_base.city)
        /\ \A f \in {"size", "color", "address"} :
              Strip(m_updates[f]) = ""
                  => m_merged[f] = IF C17_Switch THEN "" ELSE Strip(m_base[f])

\* an update with a size and nothing else was merged into a context with a city,
\* a colour and an address: all three are still there
C17_Witness ==
    /\ m_phase = "merged"
    /\ m_updates = [EmptyCtx EXCEPT !.size = "39"]
    /\ m_base.city # "" /\ m_base.color # "" /\ m_base.address # ""
    /\ m_merged.city = "Almaty"
    /\ m_merged.color = m_base.color
    /\ m_merged.address = m_base.address
    /\ m_merged.size = "39"

----------------------------------------------------------------------------
(* Claims about the turns of a conversation *)

\* C3: whenever pending_confirm is true the missing-fields list of the stored
\* order is empty, and the product is still the one the flag was set for.
C3_PendingMeansComplete ==
    db_pending =>
        /\ _build_missing_fields(db_ctx, _is_color_required(db_ctx.product)) = <<>>
        /\ db_ctx.product = pending_product

\* C6: order_type is preorder after the turn whose stock check reports the
\* product unavailable, and alternatives_offered after the next turn when its
\* message does not confirm the offer.
C6_PreorderThenAlternatives ==
    [][/\ (t_path' = "preorder" => t_order_type' = "preorder")
       /\ (t_path = "preorder" /\ t_msg' # "" /\ ~_is_order_confirmation(t_msg')
              => t_order_type' = "alternatives_offered")]_vars

C10_Original ==
    [][t_failed' => t_update' = EmptyCtx /\ db_ctx' = db_ctx]_vars

\* C10 as amended: when the extraction fails the update carries no city, size,
\* colour or address; the merge keeps these four fields and a stored product as
\* it was given them (after the category-browsing reset), and the end of the turn
\* changes nothing but a colour it clears.
C10_FailedExtraction ==
    [][t_failed' =>
        LET base == BrowsingReset(db_ctx, t_msg')
        IN /\ t_update'.city = "" /\ t_update'.size = ""
           /\ t_update'.color = "" /\ t_update'.address = ""
           /\ t_merged'.city = base.city /\ t_merged'.size = base.size
           /\ t_merged'.color = base.color /\ t_merged'.address = base.address
           /\ (base.product # "" => t_merged'.product = base.product)
           /\ (db_ctx' = t_merged' \/ db_ctx' = [t_merged' EXCEPT !.color = ""])]_vars

\* the extraction failed, the update names the product of the search hit, and
\* the stored city and address are still there
C10_Witness ==
    /\ t_failed
    /\ t_update.product = P1
    /\ db_ctx.city = "Almaty"
    /\ db_ctx.address = "Abaya 1"
    /\ db_ctx.product = P1

\* C12: when the stock check gives no answer (it raises, or the inventory frame
\* could not be loaded) the turn goes on as if the product were available: no
\* preorder offer, no order_type preorder, and the flag is not set by that step.
C12_StockFailureAssumesAvailable ==
    t_stock \in {"raised", "no_inventory"}
        => /\ t_path # "preorder"
           /\ t_order_type # "preorder"
           /\ t_reply # "preorder_offer"

\* C18: pending_confirm is never true while order_type is preorder or
\* alternatives_offered.
C18_FlagsExclusive ==
    ~(db_pending /\ t_order_type \in {"preorder", "alternatives_offered"})

\* C28: the order-confirmed notifications go out only in a turn that found the
\* flag true and whose message is a confirmation, and the order context they
\* carry has an empty missing-fields list: city, product, the required size and
\* colour, and the address.
C28_ConfirmedOrderComplete ==
    [][(t_path' = "confirmed" /\ t_msg' # "")
          => /\ db_pending
             /\ _is_order_confirmation(t_msg')
             /\ _build_missing_fields(t_merged', _is_color_required(t_merged'.product)) = <<>>
             /\ t_merged'.city # "" /\ t_merged'.product # "" /\ t_merged'.address # ""]_vars

\* C30: once the stored city of a conversation is non-empty no turn leaves it
\* empty, whatever the turn does to the product, the size, the colour and the
\* address.
C30_CityKept ==
    [][db_ctx.city # "" => db_ctx'.city # ""]_vars

----------------------------------------------------------------------------
(* Claims about the text of a reply *)

\* the sentences of a reply: its parts, each split at the end of a sentence
SentencesOf(text) ==
    UNION {{SplitSentences(p)[i] : i \in 1..Len(SplitSentences(p))} :
            p \in {Parts(text)[k] : k \in 1..Len(Parts(text))}}

\* C9: whenever the missing-fields list of a turn is non-empty, no sentence of the
\* returned reply is an order confirmation (one that _contains_order_confirm or
\* _ORDER_CONFIRM_RE recognises), whatever text the completion produced.
C9_NoConfirmWhileMissing ==
    (r_phase = "returned" /\ r_missing # <<>>) =>
        \A sentence \in SentencesOf(r_reply) :
            ~(_contains_order_confirm(sentence) \/ _ORDER_CONFIRM_RE(sentence))

MissingQuestions ==
    {_question_for_missing(f) : f \in {"city", "product", "size", "color", "address", ""}}

\* C19: on the first turn of a conversation the reply gets no missing-field
\* question that the completion's text did not already contain, whichever fields
\* are missing and whatever the extraction returned.
C19_NoQuestionOnFirstTurn ==
    (r_phase = "returned" /\ r_in.is_new_client) =>
        \A q \in MissingQuestions : Contains(r_reply, q) => Contains(r_in.text, q)

\* a first turn with order intent, a product in the context and the city missing:
\* the text without a question is returned as it is
C19_Witness ==
    /\ r_phase = "returned"
    /\ r_in.is_new_client
    /\ r_in.intent /\ ~r_in.browsing
    /\ r_in.ctx.product # ""
    /\ r_missing # <<>> /\ r_missing[1] = "city"
    /\ r_in.text = "Eta model est v nalichii."
    /\ r_reply = r_in.text

\* a turn that is not the first, with a missing field, whose generated text has
\* no question mark and no wording that hints at a missing field
C20_Silent ==
    /\ r_phase = "returned"
    /\ ~r_in.is_new_client
    /\ r_missing # <<>>
    /\ ~_has_question(r_in.text)
    /\ ~_assistant_already_requests_missing(r_in.text, r_missing)

\* the reply ends with the question for the first missing field, and that is
\* its only question
C20_OneQuestion ==
    /\ Parts(r_reply) # <<>>
    /\ Parts(r_reply)[Len(Parts(r_reply))] = _question_for_missing(r_missing[1])
    /\ Cardinality({i \in 1..Len(Parts(r_reply)) : _has_question(Parts(r_reply)[i])}) = 1

----------------------------------------------------------------------------
(* Claims about the photos of a turn *)

\* C15: when the extracted fields of a turn fill a field that was missing
\* before the merge, the context takes the new city and the turn returns no photo.
C15_AnswerWithoutPhotos ==
    (p_phase = "returned" /\ p_answering) =>
        /\ p_in.in.ext.city # "" => p_ctx.city = p_in.in.ext.city
        /\ p_photos = {}

----------------------------------------------------------------------------
(* Claims about the photo-selection functions *)

\* str.isalpha() of a lowered word of the model's alphabet
IsAlphabetic(w) ==
    Len(w) > 0 /\ \A i \in 1..Len(w) : SubSeq(w, i, i) \in (AlnumChars \ Digits)

\* the words and the canonical tokens of the normalization table
NormalizationTable == DOMAIN BRAND_MAP \cup UNION {BRAND_MAP[w] : w \in DOMAIN BRAND_MAP}

\* C24: the tokenizer's output holds no stop word and no alphabetic token shorter than
\* three characters except the tokens of the normalization table, and it holds every
\* numeric word of the text that has two digits or more.
C24_TokenizerOutput ==
    f_fn = "_tokenize" =>
        /\ f_out \cap STOP_WORDS = {}
        /\ \A t \in f_out : (IsAlphabetic(t) /\ Len(t) < 3) => t \in NormalizationTable
        /\ \A w \in FindWords(Lower(f_in), "") : (IsDigit(w) /\ Len(w) >= 2) => w \in f_out

\* a text with a stop word and a two-letter word of the table has been tokenized, and
\* one with a short word and a two-digit number
C24_Witness ==
    /\ f_fn = "_tokenize"
    /\ \/ f_in = "hochu Iv" /\ f_out = {"iv", "yves"}
       \/ f_in = "ya-38" /\ f_out = {"38"}

\* the colour labels of a list of photos
ColorLabels(photos) == {ColorOf[photos[i].filename] : i \in 1..Len(photos)}

\* C22: for photos of one product with N >= 3 distinct colour labels, the colour-variety
\* selector called with max_per_color = 1 and max_total = 6 returns exactly min(N, 6)
\* photos, no two of them with the same colour label.
C22_ColorVariety ==
    (/\ f_fn = "select_photos_with_color_variety"
     /\ f_in.max_per_color = 1 /\ f_in.max_total = 6
     /\ Cardinality(ColorLabels(f_in.images)) >= 3)
        => /\ Len(f_out) = Min(Cardinality(ColorLabels(f_in.images)), 6)
           /\ \A i, j \in 1..Len(f_out) :
                i # j => ColorOf[f_out[i].filename] # ColorOf[f_out[j].filename]

\* the product keys of a list of photos
ProductKeys(photos) == {KeyOf[photos[i].filename] : i \in 1..Len(photos)}

\* the showcase limit of a call
LimitOf(x) == IF x.max_showcase # 0 THEN x.max_showcase ELSE MAX_PHOTOS_PRODUCT_SHOWCASE

\* a call of the photo selector with photos of more than one product and no colour
IsShowcase ==
    /\ f_fn = "_pick_product_photos" /\ f_in.requested_color = ""
    /\ Cardinality(ProductKeys(f_in.found_photos)) > 1

\* C23 as stated: for photos of k > 1 product keys and no requested colour, the photo
\* selector returns exactly k photos, exactly one for each product key.
C23_Original ==
    IsShowcase =>
        /\ Len(f_out) = Cardinality(ProductKeys(f_in.found_photos))
        /\ \A key \in ProductKeys(f_in.found_photos) :
              Cardinality({i \in 1..Len(f_out) : KeyOf[f_out[i].filename] = key}) = 1

\* C23: for photos of k > 1 product keys and no requested colour, the photo selector
\* returns exactly min(k, limit) photos of the given ones, no two of the same product
\* key, so exactly one for each product key when k is at most the showcase limit.
C23_Showcase ==
    IsShowcase =>
        /\ Len(f_out) = Min(Cardinality(ProductKeys(f_in.found_photos)), LimitOf(f_in))
        /\ \A i \in 1..Len(f_out) :
              \E n \in 1..Len(f_in.found_photos) : f_in.found_photos[n] = f_out[i]
        /\ \A key \in ProductKeys(f_in.found_photos) :
              Cardinality({i \in 1..Len(f_out) : KeyOf[f_out[i].filename] = key}) <= 1
        /\ Cardinality(ProductKeys(f_in.found_photos)) <= LimitOf(f_in)
              => ProductKeys(f_out) = ProductKeys(f_in.found_photos)

\* a showcase of eight products under the limit of six, and one of five products, two
\* of them with two photos
C23_Witness ==
    /\ IsShowcase
    /\ \/ /\ Cardinality(ProductKeys(f_in.found_photos)) = 8 /\ f_in.max_showcase = 0
          /\ Len(f_out) = 6
       \/ /\ Cardinality(ProductKeys(f_in.found_photos)) = 5 /\ Len(f_in.found_photos) = 7
          /\ Len(f_out) = 5

----------------------------------------------------------------------------
(* Claims about the follow-up nudges *)

----------------------------------------------------------------------------
(* Claims about the handoff to the manager *)

C29_NoReplyDuringHandoff ==
    [][(h_out'.texts > h_out.texts \/ h_out'.photos > h_out.photos) => ~h_enabled]_vars

====
